---- MODULE Spec2Model ----
(***************************************************************************)
(* A model of the IECTranslate signaling server: the room registry        *)
(* (app/routes/rtc/room.py), the WebRTC handler (app/routes/rtc/web_rtc.py)*)
(* and the websocket endpoint that dispatches signaling messages           *)
(* (app/routes/rtc/web_socket.py).                                         *)
(***************************************************************************)
EXTENDS Integers, Sequences, FiniteSets, TLC

(***************************************************************************)
(* Finite universes of identifiers.                                        *)
(***************************************************************************)
PeerIds == {"p1", "p2", "p3"}
RoomIds == {"r1", "r2"}

\* Python's None
None == "None"

\* the sockets a client may open, each presenting a fixed user id in its URL
Sockets == {"s1", "s2"}
user_id == [s \in Sockets |-> IF s = "s1" THEN "p1" ELSE "p2"]

VARIABLES
    room,               \* WebRTCHandler.room : Rooms (_peers, _peer_rooms)
    connections,        \* WebRTCHandler.connections : peer id -> connection
    audio_tracks,       \* WebRTCHandler.audio_tracks : peer id -> track
    conns,              \* the RTCPeerConnection objects created so far
    active_connections, \* ConnectionManager.active_connections : user id -> socket
    pc,                 \* pc[s]: where the endpoint task of socket s stands
    cur,                \* cur[s]: the message the task of s is handling
    loc,                \* loc[s]: the locals of the handler the task of s runs
    event,              \* history: what the last step did (handler ended, replies)
    lastOp,             \* history: the most recent membership call made for each peer
    ret,                \* history: the value returned by the most recent Rooms call
    players,            \* the AudioPlayerTrack pipelines started so far
    recorders,          \* AudioStreamHandler.recorders : the peers being recorded
    rm,                 \* rm[p]: where a call of remove_peer(p) stands
    report              \* history: what the most recent media-plane call did

roomVars == <<room, lastOp, ret>>
rtcVars == <<connections, audio_tracks, conns>>
wsVars == <<active_connections, pc, cur, loc, event>>
mediaVars == <<players, recorders, rm, report>>
vars == <<room, connections, audio_tracks, conns, active_connections,
          pc, cur, loc, event, lastOp, ret, players, recorders, rm, report>>

(***************************************************************************)
(* Dictionaries are functions whose domain is the set of keys present.     *)
(***************************************************************************)
Put(d, k, v) == [x \in (DOMAIN d) \cup {k} |-> IF x = k THEN v ELSE d[x]]
Del(d, k) == [x \in (DOMAIN d) \ {k} |-> d[x]]
EmptyDict == <<>>

(***************************************************************************)
(* class Rooms (room.py)                                                   *)
(***************************************************************************)
Rooms == [_peers |-> EmptyDict, _peer_rooms |-> EmptyDict]

\* defaultdict(set).__getitem__: a missing key is inserted with an empty set
DefaultGet(peers, room_id) ==
    IF room_id \in DOMAIN peers THEN peers ELSE Put(peers, room_id, {})

\* the shared body of join (lines 14-17) and leave (lines 27-30):
\* discard the peer from the room's set and pop the room when it got empty
DiscardPop(peers, room_id, peer_id) ==
    IF room_id \in DOMAIN peers
    THEN IF peers[room_id] \ {peer_id} = {}
         THEN Del(peers, room_id)
         ELSE Put(peers, room_id, peers[room_id] \ {peer_id})
    ELSE peers

\* join with lines 12-17 after lines 18-19: the peer is added to the room
\* first and discarded from its previous room afterwards
join_vacatesAfter(reg, room_id, peer_id) ==
    LET got == DefaultGet(reg._peers, room_id)
        added == Put(got, room_id, got[room_id] \cup {peer_id})
    IN  [_peers |-> IF peer_id \in DOMAIN reg._peer_rooms
                    THEN DiscardPop(added, reg._peer_rooms[peer_id], peer_id)
                    ELSE added,
         _peer_rooms |-> Put(reg._peer_rooms, peer_id, room_id)]

\* join without lines 12-17: the previous room is not vacated
join_keepsOldRoom(reg, room_id, peer_id) ==
    LET got == DefaultGet(reg._peers, room_id)
    IN  [_peers |-> Put(got, room_id, got[room_id] \cup {peer_id}),
         _peer_rooms |-> Put(reg._peer_rooms, peer_id, room_id)]

join(reg, room_id, peer_id) ==
    LET vacated == IF peer_id \in DOMAIN reg._peer_rooms
                   THEN DiscardPop(reg._peers, reg._peer_rooms[peer_id], peer_id)
                   ELSE reg._peers
        got == DefaultGet(vacated, room_id)
    IN  [_peers |-> Put(got, room_id, got[room_id] \cup {peer_id}),
         _peer_rooms |-> Put(reg._peer_rooms, peer_id, room_id)]

\* leave without lines 29-30: a room that got empty is not popped
leave_keepsEmptyRoom(reg, peer_id) ==
    IF peer_id \in DOMAIN reg._peer_rooms
    THEN [_peers |-> Put(reg._peers, reg._peer_rooms[peer_id],
                         reg._peers[reg._peer_rooms[peer_id]] \ {peer_id}),
          _peer_rooms |-> Del(reg._peer_rooms, peer_id)]
    ELSE reg

\* leave without line 31: the peer-to-room entry is kept
leave_keepsEntry(reg, peer_id) ==
    IF peer_id \in DOMAIN reg._peer_rooms
    THEN [reg EXCEPT !._peers =
              DiscardPop(reg._peers, reg._peer_rooms[peer_id], peer_id)]
    ELSE reg

leave(reg, peer_id) ==
    IF peer_id \in DOMAIN reg._peer_rooms
    THEN [_peers |-> DiscardPop(reg._peers, reg._peer_rooms[peer_id], peer_id),
          _peer_rooms |-> Del(reg._peer_rooms, peer_id)]
    ELSE reg

\* others indexes the defaultdict, so it changes the registry as well
othersState(reg, room_id) ==
    [reg EXCEPT !._peers = DefaultGet(reg._peers, room_id)]

othersValue(reg, room_id, peer_id) ==
    {p \in DefaultGet(reg._peers, room_id)[room_id] : p # peer_id}

get_peers_in_room(reg, room_id) ==
    IF room_id \in DOMAIN reg._peers THEN reg._peers[room_id] ELSE {}

get_peer_room(reg, peer_id) ==
    IF peer_id \in DOMAIN reg._peer_rooms THEN reg._peer_rooms[peer_id] ELSE None

(***************************************************************************)
(* Strings that the code takes apart are sequences of one-character        *)
(* strings; str.split() and int() are computed on them.                    *)
(***************************************************************************)
Whitespace == {" ", "\t"}
Digits == {"0", "1", "2", "3", "4", "5", "6", "7", "8", "9"}

RECURSIVE splitFrom(_, _, _)
splitFrom(str, i, tok) ==
    IF i > Len(str)
    THEN IF tok = <<>> THEN <<>> ELSE <<tok>>
    ELSE IF str[i] \in Whitespace
         THEN IF tok = <<>>
              THEN splitFrom(str, i + 1, <<>>)
              ELSE <<tok>> \o splitFrom(str, i + 1, <<>>)
         ELSE splitFrom(str, i + 1, Append(tok, str[i]))

\* str.split(): the maximal runs of non-whitespace characters, in order
split(str) == splitFrom(str, 1, <<>>)

\* the part of an integer literal after its optional sign
Unsigned(tok) ==
    IF tok # <<>> /\ tok[1] \in {"+", "-"} THEN Tail(tok) ELSE tok

\* whether int(tok) returns: digits, single underscores between digits,
\* an optional sign in front
IsIntLiteral(tok) ==
    LET b == Unsigned(tok)
    IN  /\ b # <<>>
        /\ \A i \in 1..Len(b) : b[i] \in Digits \cup {"_"}
        /\ b[1] \in Digits
        /\ b[Len(b)] \in Digits
        /\ \A i \in 1..(Len(b) - 1) : ~(b[i] = "_" /\ b[i + 1] = "_")

DigitValue(c) ==
    CASE c = "0" -> 0 [] c = "1" -> 1 [] c = "2" -> 2 [] c = "3" -> 3
      [] c = "4" -> 4 [] c = "5" -> 5 [] c = "6" -> 6 [] c = "7" -> 7
      [] c = "8" -> 8 [] c = "9" -> 9

RECURSIVE Magnitude(_, _)
Magnitude(b, acc) ==
    IF b = <<>> THEN acc
    ELSE IF Head(b) = "_" THEN Magnitude(Tail(b), acc)
         ELSE Magnitude(Tail(b), 10 * acc + DigitValue(Head(b)))

\* int(tok) for a token int() accepts
int(tok) ==
    IF tok[1] = "-" THEN 0 - Magnitude(Unsigned(tok), 0)
    ELSE Magnitude(Unsigned(tok), 0)

\* the ValueError int(tok) raises otherwise
IntError(tok) ==
    [exc |-> "ValueError",
     text |-> "invalid literal for int() with base 10",
     arg |-> tok]

(***************************************************************************)
(* The candidate parser inside WebRTCHandler.handle_candidate              *)
(* (web_rtc.py, lines 329-378).                                            *)
(***************************************************************************)
W_raddr == <<"r", "a", "d", "d", "r">>
W_rport == <<"r", "p", "o", "r", "t">>
W_tcptype == <<"t", "c", "p", "t", "y", "p", "e">>

\* lines 355-362: the optional key/value pairs, read in steps of two from the
\* ninth token on; opt carries related_address, related_port, tcp_type and
\* the exception raised so far
RECURSIVE OptionalPairs(_, _, _)
OptionalPairs(parts, i, opt) ==
    IF i > Len(parts) \/ opt.err # <<>>
    THEN opt
    ELSE IF i + 1 <= Len(parts)
         THEN IF parts[i] = W_raddr
              THEN OptionalPairs(parts, i + 2,
                       [opt EXCEPT !.relatedAddress = <<parts[i + 1]>>])
              ELSE IF parts[i] = W_rport
              THEN IF IsIntLiteral(parts[i + 1])
                   THEN OptionalPairs(parts, i + 2,
                            [opt EXCEPT !.relatedPort = <<int(parts[i + 1])>>])
                   ELSE [opt EXCEPT !.err = <<IntError(parts[i + 1])>>]
              ELSE IF parts[i] = W_tcptype
              THEN OptionalPairs(parts, i + 2,
                       [opt EXCEPT !.tcpType = <<parts[i + 1]>>])
              ELSE OptionalPairs(parts, i + 2, opt)
         ELSE OptionalPairs(parts, i + 2, opt)

\* an Optional value is <<>> (None) or <<v>>
NoOptions ==
    [relatedAddress |-> <<>>, relatedPort |-> <<>>, tcpType |-> <<>>, err |-> <<>>]

\* The outcome of lines 329-378 for the dict `candidate`:
\*   "short" : fewer than 8 tokens, the handler logs and returns
\*   "raise" : an exception (err) is raised inside the try block
\*   "ok"    : ice is the RTCIceCandidate handed to addIceCandidate
ParseCandidate(candidate) ==
    LET parts == split(candidate.candidate)
    IN  IF Len(parts) < 8
        THEN [status |-> "short", err |-> <<>>, ice |-> <<>>]
        ELSE IF ~IsIntLiteral(parts[2])
        THEN [status |-> "raise", err |-> <<IntError(parts[2])>>, ice |-> <<>>]
        ELSE IF ~IsIntLiteral(parts[6])
        THEN [status |-> "raise", err |-> <<IntError(parts[6])>>, ice |-> <<>>]
        ELSE LET opt == OptionalPairs(parts, 9, NoOptions)
             IN  IF opt.err # <<>>
                 THEN [status |-> "raise", err |-> opt.err, ice |-> <<>>]
                 ELSE [status |-> "ok", err |-> <<>>,
                       ice |-> << [component |-> 1,
                                   foundation |-> parts[1],
                                   ip |-> parts[5],
                                   port |-> int(parts[6]),
                                   priority |-> int(parts[2]),
                                   protocol |-> parts[3],
                                   type |-> parts[8],
                                   relatedAddress |-> opt.relatedAddress,
                                   relatedPort |-> opt.relatedPort,
                                   sdpMid |-> candidate.sdpMid,
                                   sdpMLineIndex |-> candidate.sdpMLineIndex,
                                   tcpType |-> opt.tcpType] >>]

(***************************************************************************)
(* Inputs: the signaling messages a client sends.                          *)
(***************************************************************************)
MaxConnections == 2     \* RTCPeerConnection objects created in one run
MaxCandidates == 2      \* local candidates the engine emits for one offer

\* the local candidates the Media Engine may emit
LocalCandidates == {"host", "srflx"}

Sp == <<" ">>
W_c1 == <<"c", "1">>
W_udp == <<"u", "d", "p">>
W_ip == <<"1", "0", ".", "1">>
W_typ == <<"t", "y", "p">>
W_host == <<"h", "o", "s", "t">>

\* "c1 1 udp 2 10.1 54 typ host"
CandidateHost ==
    W_c1 \o Sp \o <<"1">> \o Sp \o W_udp \o Sp \o <<"2">> \o Sp \o W_ip \o Sp
        \o <<"5", "4">> \o Sp \o W_typ \o Sp \o W_host
\* "c1 1 udp": fewer than 8 tokens
CandidateShort == W_c1 \o Sp \o <<"1">> \o Sp \o W_udp
\* "c1 x udp 2 10.1 54 typ host": the priority is no integer
CandidateBadPriority ==
    W_c1 \o Sp \o <<"x">> \o Sp \o W_udp \o Sp \o <<"2">> \o Sp \o W_ip \o Sp
        \o <<"5", "4">> \o Sp \o W_typ \o Sp \o W_host
\* "c1 1 udp 2 10.1 5x typ  host": the port is no integer
CandidateBadPort ==
    W_c1 \o Sp \o <<"1">> \o Sp \o W_udp \o Sp \o <<"2">> \o Sp \o W_ip \o Sp
        \o <<"5", "x">> \o Sp \o W_typ \o Sp \o Sp \o W_host

CandidateStrings ==
    {CandidateHost, CandidateShort, CandidateBadPriority, CandidateBadPort}

\* A field of a message: absent or falsy ("missing"), present but without
\* the keys the handler reads ("bad"), or a dict that has them ("dict")
Missing == [kind |-> "missing"]
Bad == [kind |-> "bad"]
Description == [kind |-> "dict"]
CandidateDict(str) ==
    [kind |-> "dict", candidate |-> str, sdpMid |-> "0", sdpMLineIndex |-> 0]

Descriptions == {Missing, Bad, Description}
CandidateFields == {Missing, Bad} \cup {CandidateDict(c) : c \in CandidateStrings}

Message(type, roomId, body) == [type |-> type, roomId |-> roomId, body |-> body]
NoMessage == Message("none", None, Missing)

(***************************************************************************)
(* Replies (web_socket.py).                                                *)
(***************************************************************************)
Reply(type, roomId, body) == [type |-> type, roomId |-> roomId, body |-> body]

\* lines 239-245: the reply of the exception handler
ErrorReply(e) ==
    Reply("error", None, [prefix |-> "Error processing message: ", detail |-> e])

\* lines 143-150
AnswerReply(room_id, answer) == Reply("answer", room_id, answer)

\* lines 88-95
ConnectionEstablished(user) ==
    Reply("connection_established", None, [user_id |-> user, status |-> "connected"])

\* the exceptions the handlers raise
MissingRoomIdOrOffer ==
    [exc |-> "ValueError", text |-> "Missing roomId or offer", arg |-> <<>>]
NoConnectionFound(user) ==
    [exc |-> "ValueError", text |-> "No connection found for user", arg |-> <<user>>]
KeyError == [exc |-> "KeyError", text |-> "", arg |-> <<>>]
EngineError == [exc |-> "EngineError", text |-> "", arg |-> <<>>]
TimeoutError == [exc |-> "TimeoutError", text |-> "", arg |-> <<>>]

(***************************************************************************)
(* class WebRTCHandler (web_rtc.py)                                        *)
(***************************************************************************)
\* a fresh RTCPeerConnection; peer is the peer_id its callbacks close over
RTCPeerConnection(peer) ==
    [peer |-> peer, closed |-> FALSE, connectionState |-> "new", senders |-> <<>>]

\* The locals of handle_offer / handle_answer / handle_candidate: pc is the
\* connection, whose localDescription and iceGatheringState only this
\* handler and its callbacks read.  emitted and stop are history: the local
\* candidates the engine emitted for pc, and how the wait for the end of
\* gathering ended.
Locals(c, ice) ==
    [pc |-> c, localDescription |-> "none", iceGatheringState |-> "new",
     ice_candidates |-> <<>>, ice_gathering_complete |-> FALSE,
     ice_candidate |-> ice, emitted |-> <<>>, stop |-> "none"]
NoLocals == Locals(0, <<>>)

\* create_peer_connection without line 81
create_peer_connection_noJoin(room_id, peer_id) ==
    /\ conns' = Append(conns, RTCPeerConnection(peer_id))
    /\ connections' = Put(connections, peer_id, Len(conns) + 1)
    /\ UNCHANGED room

\* lines 28-82: no await inside, so it runs as one step
create_peer_connection(room_id, peer_id) ==
    /\ conns' = Append(conns, RTCPeerConnection(peer_id))
    /\ connections' = Put(connections, peer_id, Len(conns) + 1)
    /\ room' = join(room, room_id, peer_id)

\* on_ice_candidate that skips a candidate equal to the one before it
on_ice_candidate_dedup(l, candidate) ==
    IF candidate # None
    THEN IF l.ice_candidates # <<>>
            /\ l.ice_candidates[Len(l.ice_candidates)].candidate = candidate
         THEN l
         ELSE [l EXCEPT !.ice_candidates =
                  Append(@, [candidate |-> candidate, sdpMid |-> "0",
                             sdpMLineIndex |-> 0])]
    ELSE [l EXCEPT !.ice_gathering_complete = TRUE]

\* lines 224-237: the icecandidate callback of handle_offer, on its locals
on_ice_candidate(l, candidate) ==
    IF candidate # None
    THEN [l EXCEPT !.ice_candidates =
             Append(@, [candidate |-> candidate, sdpMid |-> "0",
                        sdpMLineIndex |-> 0])]
    ELSE [l EXCEPT !.ice_gathering_complete = TRUE]

\* lines 248-253: the icegatheringstatechange callback of handle_offer
on_ice_gathering_state_change(l) ==
    IF l.iceGatheringState = "complete"
    THEN [l EXCEPT !.ice_gathering_complete = TRUE]
    ELSE l

\* lines 290-294: what handle_offer returns
OfferResult(l) ==
    [sdp |-> l.localDescription, type |-> l.localDescription,
     ice_candidates |-> l.ice_candidates]

(***************************************************************************)
(* class ConnectionManager and the endpoint task of one socket             *)
(* (web_socket.py).  pc[s] is "off" (no task), "recv" (awaiting            *)
(* receive_text) or the await inside a handler the task is suspended at.    *)
(***************************************************************************)
\* lines 27-30
disconnect(active, user) ==
    IF user \in DOMAIN active THEN Del(active, user) ELSE active

\* lines 32-34: send_personal_message(_, user) returns normally unless the
\* user is registered and the client of the socket has gone by then
\* (send_text raises)
SendReturns(user, gone) == ~(user \in DOMAIN active_connections /\ gone)

\* what send_personal_message(m, user) delivers
Delivered(user, m) ==
    IF user \in DOMAIN active_connections
    THEN << [to |-> active_connections[user], msg |-> m] >>
    ELSE <<>>

\* what the last step did: the task of socket `by` ended the handling of
\* msg with locals `locals`, raising `raised` (<<>>: nothing) inside the try
\* block, with the replies `sends` delivered, `engine` handed to the Media
\* Engine, and the endpoint left (`closed`) or not.  In the handlers below
\* the endpoint is left only when the client has gone (`gone`: receive_text
\* or send_text raised)
Event(by, msg, locals, raised, sends, engine, closed) ==
    [by |-> by, msg |-> msg, locals |-> locals, raised |-> raised,
     sends |-> sends, engine |-> engine, closed |-> closed, gone |-> closed]
NoEvent == Event(None, NoMessage, NoLocals, <<>>, <<>>, <<>>, FALSE)

\* The end of handle_websocket_message for the task of s, which handled msg
\* with locals l: `raised` is the exception raised inside the try block (lines
\* 130-235), answered by the handler of lines 237-245, and `replies` the reply
\* of the branch otherwise.  A send that raises inside the try block reaches
\* the exception handler, whose own send raises again; that exception leaves
\* the loop and the endpoint disconnects the user (lines 120-122).
Finish(s, msg, l, raised, replies, engine) ==
    LET out == IF raised # <<>> THEN <<ErrorReply(raised[1])>> ELSE replies
    IN  /\ cur' = [cur EXCEPT ![s] = NoMessage]
        /\ loc' = [loc EXCEPT ![s] = NoLocals]
        /\ \E gone \in BOOLEAN :
              IF out = <<>> \/ SendReturns(user_id[s], gone)
              THEN /\ ~gone
                   /\ pc' = [pc EXCEPT ![s] = "recv"]
                   /\ event' = Event(s, msg, l, raised,
                                     IF out = <<>> THEN <<>>
                                     ELSE Delivered(user_id[s], out[1]),
                                     engine, FALSE)
                   /\ UNCHANGED active_connections
              ELSE /\ pc' = [pc EXCEPT ![s] = "off"]
                   /\ event' = Event(s, msg, l, raised, <<>>, engine, TRUE)
                   /\ active_connections' =
                          disconnect(active_connections, user_id[s])

\* the task of s is suspended at await `at`, handling msg with locals l
Await(s, at, msg, l) ==
    /\ pc' = [pc EXCEPT ![s] = at]
    /\ cur' = [cur EXCEPT ![s] = msg]
    /\ loc' = [loc EXCEPT ![s] = l]
    /\ event' = NoEvent
    /\ UNCHANGED active_connections

\* ParseCandidate on the candidate fields a message may carry
Parsed == [c \in {f \in CandidateFields : f.kind = "dict"} |-> ParseCandidate(c)]

\* handle_answer with the lookup of lines 298-300 replaced by plain indexing
handle_answer_keyError(user, answer) ==
    IF user \notin DOMAIN connections THEN <<KeyError>>
    ELSE IF answer = Bad THEN <<KeyError>>
    ELSE <<>>

\* lines 296-304 up to the first await of handle_answer
handle_answer(user, answer) ==
    IF user \notin DOMAIN connections THEN <<NoConnectionFound(user)>>
    ELSE IF answer = Bad THEN <<KeyError>>
    ELSE <<>>

\* handle_candidate with the lookup of lines 321-323 replaced by plain
\* indexing
handle_candidate_keyError(peer_id, candidate) ==
    IF peer_id \notin DOMAIN connections \/ candidate = Bad
    THEN [status |-> "raise", err |-> <<KeyError>>, ice |-> <<>>]
    ELSE Parsed[candidate]

\* lines 320-378 up to the await of addIceCandidate
handle_candidate(peer_id, candidate) ==
    IF peer_id \notin DOMAIN connections
    THEN [status |-> "raise", err |-> <<NoConnectionFound(peer_id)>>, ice |-> <<>>]
    ELSE IF candidate = Bad
    THEN [status |-> "raise", err |-> <<KeyError>>, ice |-> <<>>]
    ELSE Parsed[candidate]

(***************************************************************************)
(* The media plane of WebRTCHandler (web_rtc.py): on_track,                *)
(* handle_audio_track, forward_audio_track_to_room, remove_peer, and the   *)
(* AudioPlayerTrack pipeline.  A track is named by what it is: "original"  *)
(* (the track the engine announced), "relayed" (media_relay.subscribe of   *)
(* it) or "processed" (what the registered processor returned for the      *)
(* relayed track).                                                         *)
(***************************************************************************)
\* AudioPlayerTrack(track) after start() (lines 462-494): the output stream
\* is created and not started, the ingestion task _run is scheduled
AudioPlayerTrack(peer_id, track) ==
    [peer |-> peer_id, track |-> track, stream |-> "created", task |-> TRUE]

\* audio_handler.py lines 22-49: the outcome of the registered processor is
\* "ok" (it returned a track), "none" (it returned None or no track) or
\* "raise"; every failure gives back the argument, and nothing is raised
process_audio_track(track, outcome) ==
    IF outcome = "ok" THEN "processed" ELSE track

\* handle_audio_track (lines 84-116) on the pipelines started so far: the
\* statistics and the room lookups cannot fail, AudioPlayerTrack.start can
\* (no output device); the pipeline is a local variable, stored nowhere, and
\* the call of forward_audio_track_to_room is commented out (line 108)
handle_audio_track(started, peer_id, track, startOk) ==
    IF startOk THEN Append(started, AudioPlayerTrack(peer_id, track)) ELSE started

\* the calls of handle_audio_track that on_track makes (lines 54-79), in
\* order, each with the track handled and whether the call returned
Attempts(kind, relayOk, outcome, startOk, fallbackOk) ==
    IF kind # "audio" THEN <<>>
    ELSE IF ~relayOk THEN << [track |-> "original", ok |-> fallbackOk] >>
    ELSE LET handled == process_audio_track("relayed", outcome)
         IN  IF startOk THEN << [track |-> handled, ok |-> TRUE] >>
             ELSE << [track |-> handled, ok |-> FALSE],
                     [track |-> "original", ok |-> fallbackOk] >>

RECURSIVE HandleAll(_, _, _)
HandleAll(started, peer_id, attempts) ==
    IF attempts = <<>> THEN started
    ELSE HandleAll(handle_audio_track(started, peer_id, attempts[1].track,
                                      attempts[1].ok),
                   peer_id, Tail(attempts))

\* on_track of connection c (lines 46-79); nothing in it suspends, so it
\* runs as one step.  relayOk: media_relay.subscribe returned; outcome: what
\* the processor did; startOk, fallbackOk: AudioPlayerTrack.start returned
\* in the first call of handle_audio_track and in the fallback call
on_track(c, kind, relayOk, outcome, startOk, fallbackOk) ==
    /\ audio_tracks' = IF kind = "audio" /\ relayOk
                       THEN Put(audio_tracks, conns[c].peer, c)
                       ELSE audio_tracks
    /\ players' = HandleAll(players, conns[c].peer,
                            Attempts(kind, relayOk, outcome, startOk, fallbackOk))

\* lines 138-140: the peers of the source's room other than the source
OtherPeers(source_peer_id) ==
    LET room_id == get_peer_room(room, source_peer_id)
    IN  IF room_id = None THEN {}
        ELSE get_peers_in_room(room, room_id) \ {source_peer_id}

\* lines 151-154 without the test of line 154
Ready_registered(peer_id) ==
    peer_id \in DOMAIN connections

\* lines 151-154: the target has a registered connection whose state is
\* "connected"
Ready(peer_id) ==
    /\ peer_id \in DOMAIN connections
    /\ conns[connections[peer_id]].connectionState = "connected"

\* forward_audio_track_to_room in which the first target that raises ends
\* the loop for every target
Forwarded_abortsOnFailure(source_peer_id, kind, failing) ==
    IF kind # "audio" THEN {}
    ELSE IF \E q \in OtherPeers(source_peer_id) : Ready(q) /\ q \in failing
    THEN {}
    ELSE {q \in OtherPeers(source_peer_id) : Ready(q)}

\* forward_audio_track_to_room (lines 120-173) on a track of the given kind:
\* the targets that got a relayed copy.  failing: the targets for which
\* subscribe or addTrack raises
Forwarded(source_peer_id, kind, failing) ==
    IF kind # "audio" THEN {}
    ELSE {q \in OtherPeers(source_peer_id) : Ready(q) /\ q \notin failing}

\* line 158: pc.addTrack on the connection of every target that got a copy;
\* senders lists the sources of the copies a connection sends
AddTracks(cs, source_peer_id, targets) ==
    [c \in 1..Len(cs) |->
        IF \E q \in targets : connections[q] = c
        THEN [cs[c] EXCEPT !.senders = Append(@, source_peer_id)]
        ELSE cs[c]]

\* the relayed copies attached so far
RECURSIVE Copies(_)
Copies(cs) == IF cs = <<>> THEN 0 ELSE Len(cs[1].senders) + Copies(Tail(cs))

\* remove_peer(p) is not running
NoRemoval == [at |-> "idle", pc |-> 0, disturbed |-> FALSE]

\* no media-plane call has been made
NoReport == [op |-> "none"]

Init ==
    /\ room = Rooms
    /\ connections = EmptyDict
    /\ audio_tracks = EmptyDict
    /\ conns = <<>>
    /\ active_connections = EmptyDict
    /\ pc = [s \in Sockets |-> "off"]
    /\ cur = [s \in Sockets |-> NoMessage]
    /\ loc = [s \in Sockets |-> NoLocals]
    /\ event = NoEvent
    /\ lastOp = [p \in PeerIds |-> [op |-> "none", room |-> None, from |-> None]]
    /\ ret = None
    /\ players = <<>>
    /\ recorders = {}
    /\ rm = [p \in PeerIds |-> NoRemoval]
    /\ report = NoReport

\* websocket_endpoint, lines 76-95: the key is verified, the socket accepted
\* and registered, connection_established sent, and the loop entered
Connect(s) ==
    /\ pc[s] = "off"
    /\ active_connections' = Put(active_connections, user_id[s], s)
    /\ pc' = [pc EXCEPT ![s] = "recv"]
    /\ event' = Event(s, NoMessage, NoLocals, <<>>,
                      << [to |-> s, msg |-> ConnectionEstablished(user_id[s])] >>,
                      <<>>, FALSE)
    /\ UNCHANGED <<room, rtcVars, cur, loc, lastOp, ret, mediaVars>>

\* an endpoint whose except clause removes the peer as remove_peer does
ClientDisconnect_removesPeer(s) ==
    /\ pc[s] = "recv"
    /\ pc' = [pc EXCEPT ![s] = "off"]
    /\ active_connections' = disconnect(active_connections, user_id[s])
    /\ event' = Event(s, NoMessage, NoLocals, <<>>, <<>>, <<>>, TRUE)
    /\ room' = leave(room, user_id[s])
    /\ connections' = Del(connections, user_id[s])
    /\ UNCHANGED <<audio_tracks, conns, cur, loc, lastOp, ret, mediaVars>>

\* lines 101, 117-119: the client has gone, receive_text raises
\* WebSocketDisconnect and the endpoint disconnects the user
ClientDisconnect(s) ==
    /\ pc[s] = "recv"
    /\ pc' = [pc EXCEPT ![s] = "off"]
    /\ active_connections' = disconnect(active_connections, user_id[s])
    /\ event' = Event(s, NoMessage, NoLocals, <<>>, <<>>, <<>>, TRUE)
    /\ UNCHANGED <<room, rtcVars, cur, loc, lastOp, ret, mediaVars>>

\* an `offer` message: lines 131-140 and handle_offer up to its first await
\* (lines 215-260)
RecvOffer(s, room_id, offer) ==
    LET msg == Message("offer", room_id, offer)
    IN  /\ pc[s] = "recv"
        /\ IF room_id = None \/ offer = Missing
           THEN /\ Finish(s, msg, NoLocals, <<MissingRoomIdOrOffer>>, <<>>, <<>>)
                /\ UNCHANGED <<room, connections, conns>>
           ELSE /\ Len(conns) < MaxConnections
                /\ create_peer_connection(room_id, user_id[s])
                /\ IF offer = Bad
                   THEN Finish(s, msg, Locals(Len(conns) + 1, <<>>),
                               <<KeyError>>, <<>>, <<>>)
                   ELSE Await(s, "setRemoteDescription", msg,
                              Locals(Len(conns) + 1, <<>>))
        /\ UNCHANGED <<audio_tracks, lastOp, ret, mediaVars>>

\* a step of handle_offer from one await to the next
OfferStep(s, to) ==
    /\ pc' = [pc EXCEPT ![s] = to]
    /\ event' = NoEvent
    /\ UNCHANGED <<cur, loc, active_connections>>

\* line 255: await pc.setRemoteDescription(offer) returns or raises
OfferSetRemoteDescription(s) ==
    /\ pc[s] = "setRemoteDescription"
    /\ \E ok \in BOOLEAN :
          IF ok
          THEN OfferStep(s, "createAnswer")
          ELSE Finish(s, cur[s], loc[s], <<EngineError>>, <<>>, <<>>)
    /\ UNCHANGED <<room, rtcVars, lastOp, ret, mediaVars>>

\* line 262: await pc.createAnswer() returns or raises
OfferCreateAnswer(s) ==
    /\ pc[s] = "createAnswer"
    /\ \E ok \in BOOLEAN :
          IF ok
          THEN OfferStep(s, "setLocalDescription")
          ELSE Finish(s, cur[s], loc[s], <<EngineError>>, <<>>, <<>>)
    /\ UNCHANGED <<room, rtcVars, lastOp, ret, mediaVars>>

\* line 266: await pc.setLocalDescription(answer) returns or raises
OfferSetLocalDescription(s) ==
    /\ pc[s] = "setLocalDescription"
    /\ \E ok \in BOOLEAN :
          IF ok
          THEN /\ pc' = [pc EXCEPT ![s] = "wait_for"]
               /\ loc' = [loc EXCEPT ![s].localDescription = "answer"]
               /\ event' = NoEvent
               /\ UNCHANGED <<cur, active_connections>>
          ELSE Finish(s, cur[s], loc[s], <<EngineError>>, <<>>, <<>>)
    /\ UNCHANGED <<room, rtcVars, lastOp, ret, mediaVars>>

\* The Media Engine gathers local candidates for the connection of the offer
\* the task of s handles, from setLocalDescription on.
Gathering(s) == pc[s] \in {"setLocalDescription", "wait_for"}

EngineStartsGathering(s) ==
    /\ Gathering(s)
    /\ loc[s].iceGatheringState = "new"
    /\ loc' = [loc EXCEPT ![s] =
                  on_ice_gathering_state_change(
                      [@ EXCEPT !.iceGatheringState = "gathering"])]
    /\ event' = NoEvent
    /\ UNCHANGED <<room, rtcVars, active_connections, pc, cur, lastOp, ret, mediaVars>>

EngineEmitsCandidate(s, candidate) ==
    /\ Gathering(s)
    /\ loc[s].iceGatheringState = "gathering"
    /\ Len(loc[s].emitted) < MaxCandidates
    /\ loc' = [loc EXCEPT ![s] =
                  [on_ice_candidate(@, candidate) EXCEPT
                       !.emitted = Append(@, candidate)]]
    /\ event' = NoEvent
    /\ UNCHANGED <<room, rtcVars, active_connections, pc, cur, lastOp, ret, mediaVars>>

\* gathering ends: the engine reports it by the state change or by the
\* null candidate
EngineCompletesGathering(s) ==
    /\ Gathering(s)
    /\ loc[s].iceGatheringState = "gathering"
    /\ \/ loc' = [loc EXCEPT ![s] =
                     on_ice_gathering_state_change(
                         [@ EXCEPT !.iceGatheringState = "complete"])]
       \/ loc' = [loc EXCEPT ![s] =
                     on_ice_candidate(
                         [@ EXCEPT !.iceGatheringState = "complete"], None)]
    /\ event' = NoEvent
    /\ UNCHANGED <<room, rtcVars, active_connections, pc, cur, lastOp, ret, mediaVars>>

\* lines 275-294 and 143-150: wait_for returns because the event is set;
\* handle_offer returns and the answer is sent
OfferGatheringComplete(s) ==
    /\ pc[s] = "wait_for"
    /\ loc[s].ice_gathering_complete
    /\ Finish(s, cur[s], [loc[s] EXCEPT !.stop = "complete"], <<>>,
              <<AnswerReply(cur[s].roomId, OfferResult(loc[s]))>>,
              <<>>)
    /\ UNCHANGED <<room, rtcVars, lastOp, ret, mediaVars>>

\* handle_offer without the except clause of line 278: the timeout escapes
OfferGatheringTimeout_raises(s) ==
    /\ pc[s] = "wait_for"
    /\ ~loc[s].ice_gathering_complete
    /\ Finish(s, cur[s], [loc[s] EXCEPT !.stop = "timeout"],
              <<TimeoutError>>, <<>>, <<>>)
    /\ UNCHANGED <<room, rtcVars, lastOp, ret, mediaVars>>

\* lines 275-294 and 143-150: wait_for raises TimeoutError after 15 s, which
\* handle_offer catches; it returns and the answer is sent
OfferGatheringTimeout(s) ==
    /\ pc[s] = "wait_for"
    /\ ~loc[s].ice_gathering_complete
    /\ Finish(s, cur[s], [loc[s] EXCEPT !.stop = "timeout"], <<>>,
              <<AnswerReply(cur[s].roomId, OfferResult(loc[s]))>>,
              <<>>)
    /\ UNCHANGED <<room, rtcVars, lastOp, ret, mediaVars>>

\* an endpoint that starts on an `answer` message while the previous message
\* of the socket is still being handled
RecvAnswer_concurrent(s, answer) ==
    LET msg == Message("answer", None, answer)
    IN  /\ pc[s] # "off"
        /\ IF answer = Missing
           THEN Finish(s, msg, NoLocals, <<>>, <<>>, <<>>)
           ELSE IF handle_answer(user_id[s], answer) # <<>>
           THEN Finish(s, msg, NoLocals, handle_answer(user_id[s], answer),
                       <<>>, <<>>)
           ELSE Await(s, "answer.setRemoteDescription", msg,
                      Locals(connections[user_id[s]], <<>>))
        /\ UNCHANGED <<room, rtcVars, lastOp, ret, mediaVars>>

\* an `answer` message: lines 152-156 and handle_answer up to its await
RecvAnswer(s, answer) ==
    LET msg == Message("answer", None, answer)
    IN  /\ pc[s] = "recv"
        /\ IF answer = Missing
           THEN Finish(s, msg, NoLocals, <<>>, <<>>, <<>>)
           ELSE IF handle_answer(user_id[s], answer) # <<>>
           THEN Finish(s, msg, NoLocals, handle_answer(user_id[s], answer),
                       <<>>, <<>>)
           ELSE Await(s, "answer.setRemoteDescription", msg,
                      Locals(connections[user_id[s]], <<>>))
        /\ UNCHANGED <<room, rtcVars, lastOp, ret, mediaVars>>

\* lines 311-314: await pc.setRemoteDescription(answer) returns or raises
AnswerSetRemoteDescription(s) ==
    /\ pc[s] = "answer.setRemoteDescription"
    /\ \E ok \in BOOLEAN :
          IF ok
          THEN Finish(s, cur[s], loc[s], <<>>, <<>>, <<"setRemoteDescription">>)
          ELSE Finish(s, cur[s], loc[s], <<EngineError>>, <<>>, <<>>)
    /\ UNCHANGED <<room, rtcVars, lastOp, ret, mediaVars>>

\* an `ice-candidate` message: lines 158-164 and handle_candidate up to its
\* await
RecvIceCandidate(s, room_id, candidate) ==
    LET msg == Message("ice-candidate", room_id, candidate)
        out == handle_candidate(user_id[s], candidate)
    IN  /\ pc[s] = "recv"
        /\ IF room_id = None \/ candidate = Missing
           THEN Finish(s, msg, NoLocals, <<>>, <<>>, <<>>)
           ELSE IF out.status = "raise"
           THEN Finish(s, msg, NoLocals, out.err, <<>>, <<>>)
           ELSE IF out.status = "short"
           THEN Finish(s, msg, NoLocals, <<>>, <<>>, <<>>)
           ELSE Await(s, "addIceCandidate", msg,
                      Locals(connections[user_id[s]], out.ice))
        /\ UNCHANGED <<room, rtcVars, lastOp, ret, mediaVars>>

\* handle_candidate tearing the session down when addIceCandidate raises
AddIceCandidate_closesOnError(s) ==
    /\ pc[s] = "addIceCandidate"
    /\ \E ok \in BOOLEAN :
          IF ok
          THEN /\ Finish(s, cur[s], loc[s], <<>>, <<>>, <<"addIceCandidate">>)
               /\ UNCHANGED <<connections, conns>>
          ELSE /\ Finish(s, cur[s], loc[s], <<EngineError>>, <<>>, <<>>)
               /\ conns' = [conns EXCEPT ![loc[s].pc].closed = TRUE]
               /\ connections' = disconnect(connections, user_id[s])
    /\ UNCHANGED <<room, audio_tracks, lastOp, ret, mediaVars>>

\* lines 380-388: await pc.addIceCandidate(ice_candidate) returns, or raises
\* and the exception is logged and raised again
AddIceCandidate(s) ==
    /\ pc[s] = "addIceCandidate"
    /\ \E ok \in BOOLEAN :
          IF ok
          THEN Finish(s, cur[s], loc[s], <<>>, <<>>, <<"addIceCandidate">>)
          ELSE Finish(s, cur[s], loc[s], <<EngineError>>, <<>>, <<>>)
    /\ UNCHANGED <<room, rtcVars, lastOp, ret, mediaVars>>

\* lines 46-79: the engine reports an inbound track on connection c; an
\* audio track that the relay accepts is recorded as the peer's track.  The
\* signalling server has no audio output device: AudioPlayerTrack.start
\* raises in handle_audio_track and in the fallback, and no pipeline starts
OnTrack(c, kind, relayed) ==
    /\ c \in 1..Len(conns)
    /\ ~conns[c].closed
    /\ on_track(c, kind, relayed, "ok", FALSE, FALSE)
    /\ event' = NoEvent
    /\ UNCHANGED <<room, connections, conns, active_connections, pc,
                   cur, loc, lastOp, ret, recorders, rm, report>>

Next ==
    \/ \E s \in Sockets : Connect(s)
    \/ \E s \in Sockets : ClientDisconnect(s)
    \/ \E s \in Sockets, r \in RoomIds \cup {None}, o \in Descriptions :
          RecvOffer(s, r, o)
    \/ \E s \in Sockets : OfferSetRemoteDescription(s)
    \/ \E s \in Sockets : OfferCreateAnswer(s)
    \/ \E s \in Sockets : OfferSetLocalDescription(s)
    \/ \E s \in Sockets : EngineStartsGathering(s)
    \/ \E s \in Sockets, c \in LocalCandidates : EngineEmitsCandidate(s, c)
    \/ \E s \in Sockets : EngineCompletesGathering(s)
    \/ \E s \in Sockets : OfferGatheringComplete(s)
    \/ \E s \in Sockets : OfferGatheringTimeout(s)
    \/ \E s \in Sockets, a \in Descriptions : RecvAnswer(s, a)
    \/ \E s \in Sockets : AnswerSetRemoteDescription(s)
    \/ \E s \in Sockets, r \in {None, "r1"}, c \in CandidateFields :
          RecvIceCandidate(s, r, c)
    \/ \E s \in Sockets : AddIceCandidate(s)
    \/ \E c \in 1..MaxConnections, k \in {"audio", "video"}, ok \in BOOLEAN :
          OnTrack(c, k, ok)

Spec == Init /\ [][Next]_vars

\* asyncio resumes a task whose awaited event is set, and fires the timer of
\* wait_for (line 276) when the event is not set in time
FairSpec ==
    /\ Spec
    /\ \A s \in Sockets : WF_vars(OfferGatheringComplete(s))
    /\ \A s \in Sockets : WF_vars(OfferGatheringTimeout(s))

(***************************************************************************)
(* Frames that are not a JSON object (web_socket.py lines 98-128)          *)
(***************************************************************************)
\* a text frame that json.loads rejects, and one that it decodes to a value
\* other than a dict (a list, a string, a number, null)
InvalidFrame == Message("none", None, [kind |-> "invalid json"])
NonObjectFrame == Message("none", None, [kind |-> "non-object"])

\* lines 110-113
InvalidJsonFormat == Reply("error", None, [prefix |-> "Invalid JSON format", detail |-> <<>>])

\* 'list' object has no attribute 'get' (line 128)
AttributeError == [exc |-> "AttributeError", text |-> "object has no attribute 'get'", arg |-> <<>>]

\* the endpoint on invalid JSON, saying nothing
RecvInvalidJson_silent(s) ==
    /\ pc[s] = "recv"
    /\ event' = Event(s, InvalidFrame, NoLocals, <<>>, <<>>, <<>>, FALSE)
    /\ UNCHANGED <<room, rtcVars, active_connections, pc, cur, loc,
                   lastOp, ret, mediaVars>>

\* lines 101-102 and 107-115: json.loads raises JSONDecodeError, the handler
\* of the loop sends the error reply and the loop goes on; a send that raises
\* (the client has gone) leaves the loop, and the endpoint disconnects the
\* user (lines 117-122)
RecvInvalidJson(s) ==
    /\ pc[s] = "recv"
    /\ \E gone \in BOOLEAN :
          IF SendReturns(user_id[s], gone)
          THEN /\ ~gone
               /\ event' = Event(s, InvalidFrame, NoLocals, <<>>,
                                 Delivered(user_id[s], InvalidJsonFormat),
                                 <<>>, FALSE)
               /\ UNCHANGED <<active_connections, pc>>
          ELSE /\ pc' = [pc EXCEPT ![s] = "off"]
               /\ event' = Event(s, InvalidFrame, NoLocals, <<>>, <<>>, <<>>, TRUE)
               /\ active_connections' =
                      disconnect(active_connections, user_id[s])
    /\ UNCHANGED <<room, rtcVars, cur, loc, lastOp, ret, mediaVars>>

\* lines 102-104, 128 and 120-122: the frame decodes to a value that is not
\* a dict; message.get raises AttributeError before the try block of
\* handle_websocket_message is entered, so its handler (lines 237-245) does
\* not run: the exception leaves the loop and the endpoint disconnects the
\* user without a reply, the client being there
RecvNonObject(s) ==
    /\ pc[s] = "recv"
    /\ pc' = [pc EXCEPT ![s] = "off"]
    /\ event' = [Event(s, NonObjectFrame, NoLocals, <<AttributeError>>,
                       <<>>, <<>>, TRUE) EXCEPT !.gone = FALSE]
    /\ active_connections' = disconnect(active_connections, user_id[s])
    /\ UNCHANGED <<room, rtcVars, cur, loc, lastOp, ret, mediaVars>>

EnvelopeNext ==
    \/ Next
    \/ \E s \in Sockets : RecvInvalidJson(s)
    \/ \E s \in Sockets : RecvNonObject(s)

EnvelopeSpec == Init /\ [][EnvelopeNext]_vars

(***************************************************************************)
(* join-room, leave-room and messages of unknown type (web_socket.py lines *)
(* 166-235) with ConnectionManager.broadcast (lines 36-41).  The handler   *)
(* is suspended at the send of its reply and at every send of the          *)
(* broadcast, and the other sockets run meanwhile.                         *)
(***************************************************************************)
UnknownMessageType(type) ==
    Reply("error", None, [prefix |-> "Unknown message type: ", detail |-> type])

\* raised by the next() of a dict iterator when the dict has another size
\* than at the creation of the iterator
RuntimeError ==
    [exc |-> "RuntimeError", text |-> "dictionary changed size during iteration",
     arg |-> <<>>]

\* send_text on a socket whose client has gone
SendError == [exc |-> "WebSocketDisconnect", text |-> "", arg |-> <<>>]

\* the reply of a branch that answers room-joined to either message
RoomReplyOf_joined(msg, user) ==
    Reply("room-joined", msg.roomId, [peerId |-> user])

\* lines 173-180 and 198-205: the reply to a join-room or leave-room message
RoomReplyOf(msg, user) ==
    Reply(IF msg.type = "join-room" THEN "room-joined" ELSE "room-left",
          msg.roomId, [peerId |-> user])

\* lines 183-189 and 208-214: the message broadcast after the reply
RoomNoticeOf(msg, user) ==
    Reply(IF msg.type = "join-room" THEN "user-joined-room" ELSE "user-left-room",
          msg.roomId, [peerId |-> user])

\* The orders in which a dict with these keys can be iterated.  A dict is
\* iterated in the insertion order of its keys, the order the users connected
\* in; active_connections does not record that order, so the iterator takes
\* any of them, each being the order of some history of connects that leads
\* to the same registry.  A user who disconnects and connects again between
\* two sends occupies its entry as before.
Orders(keys) ==
    {o \in [1..Cardinality(keys) -> keys] :
        \A i, j \in 1..Cardinality(keys) : i # j => o[i] # o[j]}

\* The locals of the join-room / leave-room branch: log lists what was
\* delivered so far, todo the entries the iterator of broadcast has still to
\* yield (the first one being sent), used the size of the dict when the
\* iterator was made, stable the sockets registered ever since, failed the
\* sockets whose send raised
RoomLocals(log, todo, used, stable, failed) ==
    [log |-> log, todo |-> todo, used |-> used, stable |-> stable,
     failed |-> failed]

\* the sockets registered now
Registered == {active_connections[u] : u \in DOMAIN active_connections}

\* lines 166-171 and 191-196: a join-room or leave-room message changes the
\* registry and starts sending its reply; without roomId nothing happens
RecvRoomMessage(s, type, room_id) ==
    LET msg == Message(type, room_id, Missing)
    IN  /\ pc[s] = "recv"
        /\ type \in {"join-room", "leave-room"}
        /\ IF room_id = None
           THEN /\ Finish(s, msg, NoLocals, <<>>, <<>>, <<>>)
                /\ UNCHANGED room
           ELSE /\ room' = IF type = "join-room"
                           THEN join(room, room_id, user_id[s])
                           ELSE leave(room, user_id[s])
                /\ Await(s, "room.reply", msg,
                         RoomLocals(<<>>, <<>>, 0, {}, {}))
        /\ UNCHANGED <<rtcVars, lastOp, ret, mediaVars>>

\* lines 173-180 / 198-205 and 38: the send of the reply returns and the
\* loop of broadcast yields its first entry, whose send starts; or the send
\* of the reply raises, the send of the exception handler (lines 239-245)
\* raises as well and the endpoint is left
RoomReply(s) ==
    /\ pc[s] = "room.reply"
    /\ \E gone \in BOOLEAN :
          IF SendReturns(user_id[s], gone)
          THEN /\ ~gone
               /\ \E order \in Orders(DOMAIN active_connections) :
                     IF order = <<>>
                     THEN Finish(s, cur[s],
                                 RoomLocals(<<>>, <<>>, 0, {}, {}), <<>>, <<>>, <<>>)
                     ELSE /\ loc' = [loc EXCEPT ![s] =
                                RoomLocals(Delivered(user_id[s],
                                               RoomReplyOf(cur[s], user_id[s])),
                                           order, Len(order), Registered, {})]
                          /\ pc' = [pc EXCEPT ![s] = "room.broadcast"]
                          /\ event' = NoEvent
                          /\ UNCHANGED <<cur, active_connections>>
          ELSE /\ pc' = [pc EXCEPT ![s] = "off"]
               /\ cur' = [cur EXCEPT ![s] = NoMessage]
               /\ loc' = [loc EXCEPT ![s] = NoLocals]
               /\ event' = Event(s, cur[s], loc[s], <<SendError>>, <<>>, <<>>, TRUE)
               /\ active_connections' =
                      disconnect(active_connections, user_id[s])
    /\ UNCHANGED <<room, rtcVars, lastOp, ret, mediaVars>>

\* lines 37-41: the send to the entry last yielded returns (ok) or raises
\* (caught and logged), then next() either raises RuntimeError, the dict
\* having changed size, which leaves broadcast and reaches the exception
\* handler of lines 237-245, or ends the loop, or yields the next entry,
\* whose send starts.  The send to a user who is registered no more raises.
BroadcastSent(s, ok) ==
    LET l == loc[s]
        there == l.todo[1] \in DOMAIN active_connections
        to == IF there THEN {active_connections[l.todo[1]]} ELSE {}
        done == [l EXCEPT !.log = IF ok
                                  THEN @ \o Delivered(l.todo[1],
                                             RoomNoticeOf(cur[s], user_id[s]))
                                  ELSE @,
                          !.failed = IF ok THEN @ ELSE @ \cup to,
                          !.stable = @ \cap Registered,
                          !.todo = Tail(@)]
    IN  /\ pc[s] = "room.broadcast"
        /\ ok => there
        /\ IF Cardinality(DOMAIN active_connections) # l.used
           THEN Finish(s, cur[s], done, <<RuntimeError>>, <<>>, <<>>)
           ELSE IF done.todo = <<>>
           THEN Finish(s, cur[s], done, <<>>, <<>>, <<>>)
           ELSE /\ loc' = [loc EXCEPT ![s] = done]
                /\ event' = NoEvent
                /\ UNCHANGED <<pc, cur, active_connections>>
        /\ UNCHANGED <<room, rtcVars, lastOp, ret, mediaVars>>

\* lines 226-235: a message whose type is none of the known ones, or absent
RecvUnknown(s, type) ==
    LET msg == Message(type, None, Missing)
    IN  /\ pc[s] = "recv"
        /\ type \in {"unknown", "absent"}
        /\ Finish(s, msg, NoLocals, <<>>, <<UnknownMessageType(type)>>, <<>>)
        /\ UNCHANGED <<room, rtcVars, lastOp, ret, mediaVars>>

BroadcastNext ==
    \/ \E s \in Sockets : Connect(s)
    \/ \E s \in Sockets : ClientDisconnect(s)
    \/ \E s \in Sockets, t \in {"join-room", "leave-room"},
          r \in RoomIds \cup {None} : RecvRoomMessage(s, t, r)
    \/ \E s \in Sockets : RoomReply(s)
    \/ \E s \in Sockets, ok \in BOOLEAN : BroadcastSent(s, ok)
    \/ \E s \in Sockets, t \in {"unknown", "absent"} : RecvUnknown(s, t)

BroadcastSpec == Init /\ [][BroadcastNext]_vars

(***************************************************************************)
(* The registry driven directly through its public methods.                *)
(***************************************************************************)
RoomsJoin(r, p) ==
    /\ room' = join(room, r, p)
    /\ lastOp' = [lastOp EXCEPT ![p] = [op |-> "join", room |-> r,
                                         from |-> get_peer_room(room, p)]]
    /\ ret' = None
    /\ UNCHANGED <<rtcVars, wsVars, mediaVars>>

RoomsLeave(p) ==
    /\ room' = leave(room, p)
    /\ lastOp' = [lastOp EXCEPT ![p] = [op |-> "leave", room |-> None,
                                         from |-> get_peer_room(room, p)]]
    /\ ret' = None
    /\ UNCHANGED <<rtcVars, wsVars, mediaVars>>

RoomsOthers(r, p) ==
    /\ room' = othersState(room, r)
    /\ ret' = othersValue(room, r, p)
    /\ UNCHANGED <<lastOp, rtcVars, wsVars, mediaVars>>

RoomsGetPeersInRoom(r) ==
    /\ ret' = get_peers_in_room(room, r)
    /\ UNCHANGED <<room, lastOp, rtcVars, wsVars, mediaVars>>

RoomsGetPeerRoom(p) ==
    /\ ret' = get_peer_room(room, p)
    /\ UNCHANGED <<room, lastOp, rtcVars, wsVars, mediaVars>>

RoomNext ==
    \/ \E r \in RoomIds, p \in PeerIds : RoomsJoin(r, p)
    \/ \E p \in PeerIds : RoomsLeave(p)
    \/ \E r \in RoomIds, p \in PeerIds : RoomsOthers(r, p)
    \/ \E r \in RoomIds : RoomsGetPeersInRoom(r)
    \/ \E p \in PeerIds : RoomsGetPeerRoom(p)

RoomSpec == Init /\ [][RoomNext]_vars

(***************************************************************************)
(* The candidate parser applied to candidate strings of every shape.       *)
(***************************************************************************)
RECURSIVE JoinTokens(_, _)
\* the tokens written one after the other with sep between them
JoinTokens(toks, sep) ==
    IF toks = <<>> THEN <<>>
    ELSE IF Len(toks) = 1 THEN toks[1]
    ELSE toks[1] \o sep \o JoinTokens(Tail(toks), sep)

\* what a client may put at the priority and port positions
PriorityTokens == {<<"1">>, <<"x">>, <<"-", "7">>, <<"1", "_", "0">>}
PortTokens == {<<"5", "4">>, <<"5", "x">>}

\* what a client may write after the eight mandatory tokens
OptionalTails ==
    { <<>>,
      <<W_raddr, W_ip>>,
      <<W_rport, <<"9">> >>,
      <<W_rport, <<"z">> >>,
      <<W_tcptype, W_host>>,
      <<W_raddr, W_ip, W_rport, <<"9">> >>,
      <<W_rport>>,
      <<W_host, W_rport, <<"z">> >> }

Separators == { <<" ">>, <<" ", "\t">> }

\* the first n of the eight mandatory tokens, then (after all eight) a tail
CandidateTokens(n, priority, port, tail) ==
    LET all == <<W_c1, priority, W_udp, <<"2">>, W_ip, port, W_typ, W_host>>
    IN  IF n = 8 THEN all \o tail ELSE SubSeq(all, 1, n)

ParseInputs ==
    { JoinTokens(CandidateTokens(n, pr, po, tl), sep) :
          n \in 0..8, pr \in PriorityTokens, po \in PortTokens,
          tl \in OptionalTails, sep \in Separators }

\* lines 329-378 applied to the candidate dict carrying the string str
ParseString(str) ==
    /\ str \in ParseInputs
    /\ report' = [op |-> "parse", input |-> str,
                  out |-> ParseCandidate(CandidateDict(str))]
    /\ UNCHANGED <<room, rtcVars, wsVars, lastOp, ret, players, recorders, rm>>

ParseNext == \E str \in ParseInputs : ParseString(str)

ParseSpec == Init /\ [][ParseNext]_vars

(***************************************************************************)
(* The media plane on its own: peers join rooms and send offers, the       *)
(* engine moves the connections through their states and announces tracks, *)
(* and the handler's media functions are called.  Every step reports what  *)
(* it did in `report`.                                                     *)
(***************************************************************************)
MaxPlayers == 1
MaxCopies == 2
ConnectionStates == {"connecting", "connected"}
ProcessorOutcomes == {"ok", "none", "raise"}

\* web_socket.py line 171: a join-room message
MediaJoinRoom(r, p) ==
    /\ room' = join(room, r, p)
    /\ report' = [op |-> "join", peer |-> p]
    /\ UNCHANGED <<rtcVars, wsVars, lastOp, ret, players, recorders, rm>>

\* web_socket.py line 140, web_rtc.py line 219: an offer of p creates its
\* connection; a removal of p that is under way is marked as disturbed
MediaOffer(r, p) ==
    /\ Len(conns) < MaxConnections
    /\ create_peer_connection(r, p)
    /\ rm' = [rm EXCEPT ![p].disturbed = @ \/ rm[p].at # "idle"]
    /\ report' = [op |-> "offer", peer |-> p]
    /\ UNCHANGED <<audio_tracks, wsVars, lastOp, ret, players, recorders>>

\* the engine moves an open connection to another state
EngineConnectionState(c, st) ==
    /\ c \in 1..Len(conns)
    /\ ~conns[c].closed
    /\ conns[c].connectionState # st
    /\ conns' = [conns EXCEPT ![c].connectionState = st]
    /\ report' = [op |-> "state", peer |-> conns[c].peer]
    /\ UNCHANGED <<room, connections, audio_tracks, wsVars, lastOp, ret,
                   players, recorders, rm>>

\* on_track with every outcome of its sub-steps; a removal of the peer that
\* is under way is marked as disturbed
MediaOnTrack(c, kind, relayOk, outcome, startOk, fallbackOk) ==
    /\ c \in 1..Len(conns)
    /\ ~conns[c].closed
    /\ Len(players) < MaxPlayers
    /\ on_track(c, kind, relayOk, outcome, startOk, fallbackOk)
    /\ report' = [op |-> "on_track", peer |-> conns[c].peer, pc |-> c,
                  kind |-> kind, relayed |-> (kind = "audio" /\ relayOk),
                  processor |-> IF kind = "audio" /\ relayOk
                                THEN outcome ELSE "not called",
                  attempts |-> Attempts(kind, relayOk, outcome, startOk,
                                        fallbackOk),
                  raised |-> FALSE]
    /\ rm' = [rm EXCEPT ![conns[c].peer].disturbed =
                             @ \/ rm[conns[c].peer].at # "idle"]
    /\ UNCHANGED <<room, connections, conns, wsVars, lastOp, ret, recorders>>

\* forward_audio_track_to_room(source, track): lines 120-173, one step (no
\* await is reached).  The inner handler of lines 163-164 takes what a
\* target raises, the outer one of lines 170-173 the rest; the count of
\* line 168 is logged when the loop was reached
Forward(source_peer_id, kind, failing) ==
    LET others == OtherPeers(source_peer_id)
        targets == Forwarded(source_peer_id, kind, failing)
    IN  /\ failing \subseteq others
        /\ Copies(conns) + Cardinality(targets) <= MaxCopies
        /\ conns' = AddTracks(conns, source_peer_id, targets)
        /\ report' = [op |-> "forward", peer |-> source_peer_id,
                      kind |-> kind, others |-> others,
                      ready |-> {q \in others : Ready(q)},
                      failing |-> failing, delivered |-> targets,
                      logged |-> IF kind = "audio" /\ others # {}
                                 THEN <<Cardinality(targets),
                                        Cardinality(others)>>
                                 ELSE <<>>,
                      raised |-> FALSE]
        /\ UNCHANGED <<room, connections, audio_tracks, wsVars, lastOp, ret,
                       players, recorders, rm>>

\* start_recording (web_rtc.py lines 199-201, audio_handler.py lines 56-70):
\* the recorder is registered before it is started
StartRecording(p) ==
    /\ p \notin recorders
    /\ recorders' = recorders \cup {p}
    /\ report' = [op |-> "record", peer |-> p]
    /\ UNCHANGED <<room, rtcVars, wsVars, lastOp, ret, players, rm>>

\* remove_peer without line 403
remove_peer_leave_skipped(p, c, disturbed) ==
    /\ UNCHANGED room
    /\ rm' = [rm EXCEPT ![p] = NoRemoval]
    /\ report' = [op |-> "remove_peer", peer |-> p, pc |-> c,
                  disturbed |-> disturbed, raised |-> FALSE]

\* remove_peer, lines 403-404: the call of p that closed connection c (0:
\* none) leaves the room and returns
remove_peer_leave(p, c, disturbed) ==
    /\ room' = leave(room, p)
    /\ rm' = [rm EXCEPT ![p] = NoRemoval]
    /\ report' = [op |-> "remove_peer", peer |-> p, pc |-> c,
                  disturbed |-> disturbed, raised |-> FALSE]

\* remove_peer, lines 397-401: the track is dropped and stop_recording
\* called, which awaits recorder.stop() when p is being recorded
remove_peer_track(p, c, disturbed) ==
    /\ audio_tracks' = IF p \in DOMAIN audio_tracks
                       THEN Del(audio_tracks, p) ELSE audio_tracks
    /\ IF p \in recorders
       THEN /\ rm' = [rm EXCEPT ![p] = [at |-> "stop", pc |-> c,
                                        disturbed |-> disturbed]]
            /\ report' = [op |-> "removing", peer |-> p]
            /\ UNCHANGED room
       ELSE remove_peer_leave(p, c, disturbed)

\* remove_peer(p) is called (lines 390-394); one call per peer at a time
RemovePeer(p) ==
    /\ rm[p].at = "idle"
    /\ IF p \in DOMAIN connections
       THEN /\ rm' = [rm EXCEPT ![p] = [at |-> "close", pc |-> connections[p],
                                        disturbed |-> FALSE]]
            /\ report' = [op |-> "removing", peer |-> p]
            /\ UNCHANGED <<room, audio_tracks>>
       ELSE remove_peer_track(p, 0, FALSE)
    /\ UNCHANGED <<connections, conns, wsVars, lastOp, ret, players, recorders>>

\* line 394 returns or raises.  Nothing in remove_peer catches: when close
\* raises the call ends there
RemovePeerClosed(p, ok) ==
    /\ rm[p].at = "close"
    /\ IF ok
       THEN /\ conns' = [conns EXCEPT ![rm[p].pc].closed = TRUE,
                                      ![rm[p].pc].connectionState = "closed"]
            /\ connections' = Del(connections, p)
            /\ remove_peer_track(p, rm[p].pc, rm[p].disturbed)
       ELSE /\ rm' = [rm EXCEPT ![p] = NoRemoval]
            /\ report' = [op |-> "remove_peer", peer |-> p, pc |-> rm[p].pc,
                          disturbed |-> rm[p].disturbed, raised |-> TRUE]
            /\ UNCHANGED <<room, connections, audio_tracks, conns>>
    /\ UNCHANGED <<wsVars, lastOp, ret, players, recorders>>

\* audio_handler.py lines 80-86: recorder.stop() returns (the recorder is
\* unregistered) or raises (caught, the recorder stays); then line 403
RemovePeerStopped(p, ok) ==
    /\ rm[p].at = "stop"
    /\ recorders' = IF ok THEN recorders \ {p} ELSE recorders
    /\ remove_peer_leave(p, rm[p].pc, rm[p].disturbed)
    /\ UNCHANGED <<rtcVars, wsVars, lastOp, ret, players>>

\* _warmup (lines 505-509): 200 ms after start the output stream is started;
\* nothing ever sets _stopped, since stop() is called nowhere
PlayerWarmup(i) ==
    /\ i \in 1..Len(players)
    /\ players[i].stream = "created"
    /\ players' = [players EXCEPT ![i].stream = "started"]
    /\ report' = [op |-> "player", peer |-> players[i].peer]
    /\ UNCHANGED <<room, rtcVars, wsVars, lastOp, ret, recorders, rm>>

\* _run (lines 511-539): track.recv() raises when the track has ended and
\* the ingestion task ends; the output stream stays open
PlayerTrackEnds(i) ==
    /\ i \in 1..Len(players)
    /\ players[i].task
    /\ players' = [players EXCEPT ![i].task = FALSE]
    /\ report' = [op |-> "player", peer |-> players[i].peer]
    /\ UNCHANGED <<room, rtcVars, wsVars, lastOp, ret, recorders, rm>>

\* rooms, connections and forwarding
ForwardNext ==
    \/ \E r \in RoomIds, p \in PeerIds : MediaJoinRoom(r, p)
    \/ \E r \in RoomIds, p \in PeerIds : MediaOffer(r, p)
    \/ \E c \in 1..MaxConnections, st \in ConnectionStates :
          EngineConnectionState(c, st)
    \/ \E p \in PeerIds, k \in {"audio", "video"}, failing \in SUBSET PeerIds :
          Forward(p, k, failing)

ForwardSpec == Init /\ [][ForwardNext]_vars

\* the users that have a socket, and so can send offers
Users == {user_id[s] : s \in Sockets}

\* offers, connection states and inbound tracks
PublishNext ==
    \/ \E r \in RoomIds, p \in Users : MediaOffer(r, p)
    \/ \E c \in 1..MaxConnections, st \in ConnectionStates :
          EngineConnectionState(c, st)
    \/ \E c \in 1..MaxConnections, k \in {"audio", "video"},
          relayOk \in BOOLEAN, outcome \in ProcessorOutcomes,
          startOk \in BOOLEAN, fallbackOk \in BOOLEAN :
          MediaOnTrack(c, k, relayOk, outcome, startOk, fallbackOk)

PublishSpec == Init /\ [][PublishNext]_vars

\* inbound audio tracks, playback pipelines, recordings and the removal of
\* peers
RemoveNext ==
    \/ \E r \in RoomIds, p \in Users : MediaOffer(r, p)
    \/ \E c \in 1..MaxConnections, k \in {"audio", "video"},
          relayOk \in BOOLEAN, outcome \in ProcessorOutcomes,
          startOk \in BOOLEAN, fallbackOk \in BOOLEAN :
          MediaOnTrack(c, k, relayOk, outcome, startOk, fallbackOk)
    \/ \E p \in Users : StartRecording(p)
    \/ \E p \in Users : RemovePeer(p)
    \/ \E p \in Users, ok \in BOOLEAN : RemovePeerClosed(p, ok)
    \/ \E p \in Users, ok \in BOOLEAN : RemovePeerStopped(p, ok)
    \/ \E i \in 1..MaxPlayers : PlayerWarmup(i)
    \/ \E i \in 1..MaxPlayers : PlayerTrackEnds(i)

RemoveSpec == Init /\ [][RemoveNext]_vars



(***************************************************************************)
(* Claims about the room registry (checked under RoomSpec).                *)
(***************************************************************************)

\* C1: for every peer whose most recent membership call was join(r, p),
\* get_peer_room(p) is r, p is a member of r and of no other room; the room
\* p occupied before that join no longer contains p.
C1_LatestJoinWins ==
    \A p \in PeerIds :
        lastOp[p].op = "join" =>
            /\ get_peer_room(room, p) = lastOp[p].room
            /\ p \in get_peers_in_room(room, lastOp[p].room)
            /\ \A r \in RoomIds \ {lastOp[p].room} :
                   p \notin get_peers_in_room(room, r)
            /\ lastOp[p].from \notin {None, lastOp[p].room} =>
                   p \notin get_peers_in_room(room, lastOp[p].from)

\* a peer has just been moved by join from one room into another one
C1_Witness ==
    \E p \in PeerIds :
        /\ lastOp[p].op = "join"
        /\ lastOp[p].from \notin {None, lastOp[p].room}
        /\ get_peer_room(room, p) = lastOp[p].room

\* C2: a room id is registered exactly when its member set is non-empty: no
\* registered room has an empty member set, and every room that still has
\* members is registered.
C2_RegisteredIffNonEmpty ==
    \A r \in RoomIds :
        /\ r \in DOMAIN room._peers => room._peers[r] # {}
        /\ (\E p \in PeerIds : get_peer_room(room, p) = r)
              => r \in DOMAIN room._peers

\* C3: the two indexes agree: p is in the member set of r if and only if the
\* peer-to-room map sends p to r (so a peer is in at most one room).
C3_IndexesAgree ==
    \A p \in PeerIds, r \in RoomIds :
        p \in get_peers_in_room(room, r) <=> get_peer_room(room, p) = r

\* two peers share a room while a third one has left the registry again
C3_Witness ==
    \E p, q, x \in PeerIds, r \in RoomIds :
        /\ p # q
        /\ {p, q} \subseteq get_peers_in_room(room, r)
        /\ lastOp[x].op = "leave"
        /\ lastOp[x].from # None
        /\ get_peer_room(room, x) = None

(***************************************************************************)
(* Claims about signaling (checked under Spec and FairSpec).               *)
(***************************************************************************)
\* the last step ended the handling of a message of this type
Handled(type) == event.by # None /\ event.msg.type = type

\* the entries of an answer's ice_candidates for the emitted candidates
Collected(emitted) ==
    [i \in 1..Len(emitted) |->
        [candidate |-> emitted[i], sdpMid |-> "0", sdpMLineIndex |-> 0]]

\* C4: when an offer carrying roomId r from peer p has been handled
\* successfully, p is a member of room r, p has a registered connection, and
\* exactly one answer reply carrying roomId r has been sent, to p's socket
\* and to no other client.
C4_OfferSuccess ==
    (Handled("offer") /\ event.raised = <<>> /\ ~event.closed) =>
        LET p == user_id[event.by]
            r == event.msg.roomId
        IN  /\ get_peer_room(room, p) = r
            /\ p \in get_peers_in_room(room, r)
            /\ p \in DOMAIN connections
            /\ connections[p] \in 1..Len(conns)
            /\ conns[connections[p]].peer = p
            /\ Len(event.sends) = 1
            /\ event.sends[1].to = event.by
            /\ event.sends[1].msg.type = "answer"
            /\ event.sends[1].msg.roomId = r

\* an offer was answered while another client was connected as well
C4_Witness ==
    /\ Handled("offer") /\ event.raised = <<>> /\ ~event.closed
    /\ Len(event.sends) = 1
    /\ event.sends[1].msg.type = "answer"
    /\ \E s \in Sockets \ {event.by} : user_id[s] \in DOMAIN active_connections

\* C5: the ice_candidates of the answer handle_offer returns are exactly the
\* local candidates the engine emitted before the stop point, in emission
\* order, none lost, duplicated or added, and the answer's type is "answer".
C5_CandidatesAsEmitted ==
    (Handled("offer") /\ event.locals.stop # "none") =>
        /\ OfferResult(event.locals).ice_candidates
               = Collected(event.locals.emitted)
        /\ OfferResult(event.locals).type = "answer"
        /\ ~event.closed =>
               /\ Len(event.sends) = 1
               /\ event.sends[1].msg.body = OfferResult(event.locals)

\* gathering was signalled complete after MaxCandidates candidates, and the
\* answer was delivered
C5_Witness ==
    /\ Handled("offer") /\ event.locals.stop = "complete"
    /\ Len(event.locals.emitted) = MaxCandidates
    /\ \E i, j \in 1..Len(event.locals.emitted) :
           event.locals.emitted[i] # event.locals.emitted[j]
    /\ Len(event.sends) = 1

\* handle_offer returned for the offer the task of s was handling
OfferReturned(s) ==
    /\ event.by = s /\ event.msg.type = "offer"
    /\ event.locals.stop \in {"complete", "timeout"}
    /\ event.raised = <<>>

\* C6: once the local description is applied handle_offer always returns:
\* the wait ends at the gathering-complete signal or at the timeout,
\* whichever comes first, and at the timeout it returns the local
\* description with the candidates gathered so far instead of failing.
C6_OfferAlwaysReturns ==
    /\ [](Handled("offer") /\ event.locals.stop = "complete"
              => event.locals.ice_gathering_complete)
    /\ [](Handled("offer") /\ event.locals.stop = "timeout"
              => /\ ~event.locals.ice_gathering_complete
                 /\ event.raised = <<>>
                 /\ OfferResult(event.locals).sdp = "answer"
                 /\ OfferResult(event.locals).ice_candidates
                        = Collected(event.locals.emitted))
    /\ \A s \in Sockets : (pc[s] = "wait_for") ~> OfferReturned(s)

\* the timeout ended a wait in which the engine had emitted a candidate but
\* never signalled the end of gathering
C6_Witness ==
    /\ Handled("offer") /\ event.locals.stop = "timeout"
    /\ event.locals.iceGatheringState = "gathering"
    /\ event.locals.emitted # <<>>
    /\ Len(event.sends) = 1

\* C7: an answer message (carrying an answer) for a peer without a
\* registered connection fails with the no-session error, which is reported
\* to that peer as an error reply; the connection registry, the published
\* tracks and the room membership are left unchanged.
C7_AnswerNoSession ==
    [][\A s \in Sockets :
          (/\ user_id[s] \notin DOMAIN connections
           /\ event'.by = s /\ event'.msg.type = "answer"
           /\ event'.msg.body # Missing) =>
              /\ event'.raised = <<NoConnectionFound(user_id[s])>>
              /\ ~event'.closed =>
                     event'.sends =
                         << [to |-> s,
                             msg |-> ErrorReply(NoConnectionFound(user_id[s]))] >>
              /\ UNCHANGED <<connections, conns, audio_tracks, room>>
      ]_vars

\* the no-session error reply for an answer, with another peer's session,
\* track and membership in place
C7_Witness ==
    /\ Handled("answer")
    /\ event.raised = <<NoConnectionFound(user_id[event.by])>>
    /\ Len(event.sends) = 1
    /\ event.sends[1].msg.type = "error"
    /\ user_id[event.by] \notin DOMAIN connections
    /\ connections # EmptyDict /\ audio_tracks # EmptyDict

\* C8: an ice-candidate message (carrying roomId and candidate) for a peer
\* without a registered connection fails with the no-session error, which
\* the caller receives as an error reply, and the room registry and the
\* connection registry are exactly as before the message.
C8_CandidateNoSession ==
    [][\A s \in Sockets :
          (/\ user_id[s] \notin DOMAIN connections
           /\ event'.by = s /\ event'.msg.type = "ice-candidate"
           /\ event'.msg.roomId # None /\ event'.msg.body # Missing) =>
              /\ event'.raised = <<NoConnectionFound(user_id[s])>>
              /\ ~event'.closed =>
                     event'.sends =
                         << [to |-> s,
                             msg |-> ErrorReply(NoConnectionFound(user_id[s]))] >>
              /\ UNCHANGED <<room, connections, conns>>
      ]_vars

\* the no-session error reply for a well-formed candidate, with another
\* peer's session and membership in place
C8_Witness ==
    /\ Handled("ice-candidate")
    /\ event.msg.body = CandidateDict(CandidateHost)
    /\ event.raised = <<NoConnectionFound(user_id[event.by])>>
    /\ Len(event.sends) = 1
    /\ event.sends[1].msg.type = "error"
    /\ user_id[event.by] \notin DOMAIN connections
    /\ connections # EmptyDict

\* a candidate string that fails to parse: fewer than 8 whitespace-separated
\* tokens, or a priority or port token that is no integer
Malformed(candidate) ==
    \/ Len(split(candidate)) < 8
    \/ ~IsIntLiteral(split(candidate)[2])
    \/ ~IsIntLiteral(split(candidate)[6])

\* C9: for a peer with a session, every ice-candidate whose candidate string
\* fails to parse is answered by an error reply to the caller; a malformed
\* candidate is never accepted or dropped silently.
C9_MalformedReported ==
    (/\ Handled("ice-candidate")
     /\ user_id[event.by] \in DOMAIN connections
     /\ event.msg.roomId # None
     /\ event.msg.body \in {CandidateDict(c) : c \in CandidateStrings}
     /\ Malformed(event.msg.body.candidate)) =>
        /\ event.raised # <<>>
        /\ event.engine = <<>>
        /\ ~event.closed =>
               /\ Len(event.sends) = 1
               /\ event.sends[1].to = event.by
               /\ event.sends[1].msg.type = "error"

\* C10: the handling of an ice-candidate that ends without the candidate
\* handed to the engine (no session, malformed candidate, rejection by the
\* engine) closes and unregisters no connection and changes no room
\* membership, and the task goes on to receive the peer's next message.
C10_FailedCandidateKeepsSession ==
    [][(event'.by # None /\ event'.msg.type = "ice-candidate"
            /\ event'.engine = <<>>) =>
          /\ UNCHANGED <<connections, conns, room>>
          /\ \A c \in 1..Len(conns) : ~conns'[c].closed
          /\ event'.closed \/ pc'[event'.by] = "recv"
      ]_vars

\* the engine rejected a candidate of a peer whose session stays registered
\* and open, and whose task awaits the next message
C10_Witness ==
    /\ Handled("ice-candidate")
    /\ event.raised = <<EngineError>>
    /\ user_id[event.by] \in DOMAIN connections
    /\ ~conns[connections[user_id[event.by]]].closed
    /\ pc[event.by] = "recv"

(***************************************************************************)
(* Claims about the candidate parser (checked under ParseSpec).            *)
(***************************************************************************)
\* the validity predicate: at least 8 whitespace-separated tokens with
\* integers at the priority and port positions
ValidCandidate(str) ==
    /\ Len(split(str)) >= 8
    /\ IsIntLiteral(split(str)[2])
    /\ IsIntLiteral(split(str)[6])

\* C11: a candidate string is parsed (and can be handed to the engine) if and
\* only if it has at least 8 tokens with integers at the priority and port
\* positions; then foundation, priority, protocol, ip, port and type are
\* tokens 1, 2, 3, 5, 6 and 8; any other string yields an error and no
\* candidate.
C11_ParseTotal ==
    report.op = "parse" =>
        LET parts == split(report.input)
            out == report.out
        IN  /\ out.status = "ok" <=> ValidCandidate(report.input)
            /\ out.status = "ok" =>
                   /\ out.ice[1].foundation = parts[1]
                   /\ out.ice[1].priority = int(parts[2])
                   /\ out.ice[1].protocol = parts[3]
                   /\ out.ice[1].ip = parts[5]
                   /\ out.ice[1].port = int(parts[6])
                   /\ out.ice[1].type = parts[8]
            /\ out.status # "ok" =>
                   /\ out.status = "raise"
                   /\ out.err # <<>>
                   /\ out.ice = <<>>

(***************************************************************************)
(* Claims about the media plane                                            *)
(***************************************************************************)
\* the last senders of connection c, after a step, beyond those before it
Received(q) ==
    /\ q \in DOMAIN connections
    /\ Len(conns'[connections[q]].senders) > Len(conns[connections[q]].senders)

\* q is in the room the source is in
SameRoom(q, source) ==
    \E r \in DOMAIN room._peers : {q, source} \subseteq room._peers[r]

\* C12: whenever the engine announces an inbound audio track of a peer, the
\* track is recorded as that peer's published stream and every other peer of
\* the peer's room whose connection is connected at that moment gets a
\* relayed copy of it.
C12_TrackForwarded ==
    (report.op = "on_track" /\ report.kind = "audio" /\ report.relayed) =>
        /\ report.peer \in DOMAIN audio_tracks
        /\ \A q \in PeerIds :
              (/\ q # report.peer
               /\ SameRoom(q, report.peer)
               /\ q \in DOMAIN connections
               /\ conns[connections[q]].connectionState = "connected") =>
                  \E i \in 1..Len(conns[connections[q]].senders) :
                      conns[connections[q]].senders[i] = report.peer

\* C13: forward_audio_track_to_room(S, track) on an audio track adds a
\* relayed copy to the connection of q only if q is in S's room, is not S,
\* has a registered connection and that connection is connected, and it
\* does add one to every such q for which subscribing and attaching go
\* through; no other connection gets a copy; S gets none; with S in no room
\* or alone in its room nothing is delivered; and nothing is raised.
C13_ForwardTargets ==
    [][(report'.op = "forward" /\ report'.kind = "audio") =>
          LET S == report'.peer
          IN  /\ ~report'.raised
              /\ \A q \in PeerIds :
                    Received(q) <=>
                        /\ q # S
                        /\ SameRoom(q, S)
                        /\ q \in DOMAIN connections
                        /\ conns[connections[q]].connectionState = "connected"
                        /\ q \notin report'.failing
              /\ \A c \in 1..Len(conns) :
                    conns'[c].senders # conns[c].senders =>
                        /\ \E q \in PeerIds : Received(q) /\ connections[q] = c
                        /\ conns'[c].senders = Append(conns[c].senders, S)
              /\ ~Received(S)
              /\ (\A q \in PeerIds : q # S => ~SameRoom(q, S)) =>
                    conns' = conns]_vars

\* a forward that reached one target and passed over a peer of the room
\* that is registered and still negotiating, and a peer out of the room
C13_Witness ==
    /\ report.op = "forward" /\ report.kind = "audio"
    /\ report.delivered # {}
    /\ report.failing = {}
    /\ \E q \in report.others \ report.delivered :
          /\ q \in DOMAIN connections
          /\ conns[connections[q]].connectionState = "connecting"

\* C14: a failure while subscribing or attaching for one target does not
\* keep the other eligible targets from getting their copy and is not
\* raised; the logged count is the number of targets that got a copy, out of
\* the number of other peers of the room, and lies between 0 and that
\* number; with one other peer b it is 1/1 when b is connected and its copy
\* was attached, and 0/1 otherwise.
C14_FailureIsolated ==
    [][report'.op = "forward" =>
          LET S == report'.peer
              got == {q \in PeerIds : Received(q)}
              others == {q \in PeerIds : q # S /\ SameRoom(q, S)}
          IN  /\ ~report'.raised
              /\ \A q \in others :
                    (/\ report'.kind = "audio"
                     /\ q \in DOMAIN connections
                     /\ conns[connections[q]].connectionState = "connected"
                     /\ q \notin report'.failing) => q \in got
              /\ report'.logged # <<>> =>
                    /\ report'.logged = <<Cardinality(got), Cardinality(others)>>
                    /\ report'.logged[1] \in 0..Cardinality(others)
              /\ (report'.kind = "audio" /\ others # {}) => report'.logged # <<>>
              /\ (report'.kind = "audio" /\ Cardinality(others) = 1) =>
                    LET b == CHOOSE q \in others : TRUE
                    IN  /\ report'.logged \in {<<1, 1>>, <<0, 1>>}
                        /\ report'.logged = <<1, 1>> <=>
                              /\ b \in DOMAIN connections
                              /\ conns[connections[b]].connectionState = "connected"
                              /\ b \notin report'.failing]_vars

\* a forward in which one eligible target failed and another got its copy
C14_Witness ==
    /\ report.op = "forward"
    /\ report.failing \cap report.ready # {}
    /\ report.delivered # {}
    /\ report.logged = <<1, 2>>

\* C15: when relaying, recording or processing an inbound audio track fails
\* at any sub-step, on_track ends up handling the original, non-relayed
\* track; the notification always leads to an attempt to handle a track,
\* and on_track raises nothing to the engine.
C15_FallbackToOriginal ==
    (report.op = "on_track" /\ report.kind = "audio") =>
        /\ ~report.raised
        /\ report.attempts # <<>>
        /\ (\/ ~report.relayed
            \/ report.processor \in {"none", "raise"}
            \/ ~report.attempts[1].ok) =>
               report.attempts[Len(report.attempts)].track = "original"

\* the removal of p that the last step completed without raising, no offer
\* and no track of p having arrived while it ran
Removed(p) ==
    /\ report.op = "remove_peer" /\ report.peer = p
    /\ ~report.raised /\ ~report.disturbed

C17_CleanupUnconditional ==
    (report.op = "remove_peer" /\ ~report.disturbed) =>
        /\ report.peer \notin DOMAIN connections
        /\ report.peer \notin DOMAIN audio_tracks
        /\ get_peer_room(room, report.peer) = None

\* C18: when remove_peer(p) has completed, every playback pipeline started
\* for a track of p is stopped: its ingestion task has ended and its output
\* stream is closed.
C18_PlaybackStopped ==
    (\E p \in PeerIds : Removed(p)) =>
        \A i \in 1..Len(players) :
            players[i].peer = report.peer =>
                /\ ~players[i].task
                /\ players[i].stream = "closed"

(***************************************************************************)
(* Claims about frames and exceptions                                      *)
(***************************************************************************)
\* C19: when the handling of a message raises an exception, the sender gets
\* the reply error / "Error processing message: <detail>", its task goes
\* back to receiving the next message, and its connection stays registered
\* (the client being there to take the reply).
C19_ExceptionReplied ==
    (event.by # None /\ event.raised # <<>> /\ ~event.gone) =>
        /\ event.sends = << [to |-> event.by, msg |-> ErrorReply(event.raised[1])] >>
        /\ pc[event.by] = "recv"
        /\ user_id[event.by] \in DOMAIN active_connections
        /\ active_connections[user_id[event.by]] = event.by

\* C20: a text frame that is not valid JSON gets exactly one reply,
\* error / "Invalid JSON format", to its sender; the registries of sockets,
\* sessions, tracks and rooms are as before, and the task of the sender
\* goes back to receiving the next frame (the client being there to take
\* the reply).
C20_InvalidJsonReplied ==
    [][(event'.msg = InvalidFrame /\ ~event'.gone) =>
          /\ event'.sends = << [to |-> event'.by, msg |-> InvalidJsonFormat] >>
          /\ event'.raised = <<>>
          /\ pc[event'.by] = "recv" /\ pc'[event'.by] = "recv"
          /\ UNCHANGED <<active_connections, room, connections, conns,
                         audio_tracks, recorders, players>>]_vars

\* an invalid frame answered while a session of the sender is registered
C20_Witness ==
    /\ event.msg = InvalidFrame
    /\ ~event.gone
    /\ event.sends # <<>>
    /\ user_id[event.by] \in DOMAIN connections
    /\ pc[event.by] = "recv"

(***************************************************************************)
(* The playback buffer of one AudioPlayerTrack (web_rtc.py lines 461-551). *)
(* _run, the ingestion task, runs in the thread of the event loop and      *)
(* _audio_callback in the thread of the audio device; the two interleave   *)
(* between any two operations on the deque.  A sample is [n, ch]: n its    *)
(* number in the order of arrival, ch its number of channels.              *)
(***************************************************************************)
buffer_size == 2
MaxPushed == 4
MaxFrame == 2
MaxRequest == 2
ChannelCounts == {1, 2, 3}

\* line 549: [0.0] * self.channels
Silence == [n |-> 0, ch |-> 2]

\* the samples n+1 .. n+k of ch channels each
RECURSIVE SamplesFrom(_, _, _)
SamplesFrom(n, k, ch) ==
    IF k = 0 THEN <<>>
    ELSE <<[n |-> n + 1, ch |-> ch]>> \o SamplesFrom(n + 1, k - 1, ch)

\* what happened to the buffer so far: the number of samples pushed, the
\* samples handed to the device, the samples evicted, and the last callback
NoPlayback ==
    [op |-> "buffer", pushed |-> 0, delivered |-> <<>>, evicted |-> <<>>,
     out |-> [frames |-> 0, data |-> <<>>, raised |-> "none"]]

\* lines 462-494: a player whose stream runs, with its empty deque, its
\* ingestion task at track.recv() and its callback not running
BufferStart(p) ==
    /\ players = <<>>
    /\ players' = <<[peer |-> p, track |-> "original", stream |-> "started",
                     task |-> TRUE, buffer |-> <<>>,
                     run |-> [at |-> "recv", pcm |-> <<>>],
                     cb |-> [at |-> "idle", left |-> 0, chunk |-> <<>>]]>>
    /\ report' = NoPlayback
    /\ UNCHANGED <<room, rtcVars, wsVars, lastOp, ret, recorders, rm>>

\* the state every step of the buffer leaves alone
BufferFrame ==
    /\ Len(players) = 1
    /\ report.op = "buffer"
    /\ UNCHANGED <<room, rtcVars, wsVars, lastOp, ret, recorders, rm>>

\* lines 514-528: a frame of k samples of ch channels is received,
\* normalised, and made stereo when it is mono; frames of more channels are
\* left as they are
RunRecv(k, ch) ==
    /\ BufferFrame
    /\ players[1].run.at = "recv"
    /\ report.pushed + k <= MaxPushed
    /\ players' = [players EXCEPT ![1].run =
           [at |-> "append",
            pcm |-> SamplesFrom(report.pushed, k, IF ch = 1 THEN 2 ELSE ch)]]
    /\ report' = [report EXCEPT !.pushed = @ + k]

\* lines 531-532: one sample of the frame is appended; after the last one
\* the trimming loop is entered
RunAppend ==
    /\ BufferFrame
    /\ players[1].run.at = "append"
    /\ players' = [players EXCEPT
           ![1].buffer = Append(@, players[1].run.pcm[1]),
           ![1].run = [at |-> IF Len(players[1].run.pcm) = 1
                              THEN "trim" ELSE "append",
                       pcm |-> Tail(players[1].run.pcm)]]
    /\ UNCHANGED report

\* line 535: the test of the trimming loop
RunTrim ==
    /\ BufferFrame
    /\ players[1].run.at = "trim"
    /\ players' = [players EXCEPT ![1].run.at =
           IF Len(players[1].buffer) > buffer_size THEN "popleft" ELSE "recv"]
    /\ UNCHANGED report

\* a trimming loop that drops the newest sample
RunPopleft_newest ==
    /\ BufferFrame
    /\ players[1].run.at = "popleft"
    /\ IF players[1].buffer = <<>>
       THEN /\ players' = [players EXCEPT ![1].run.at = "ended",
                                          ![1].task = FALSE]
            /\ UNCHANGED report
       ELSE /\ players' = [players EXCEPT
                   ![1].buffer = SubSeq(@, 1, Len(@) - 1),
                   ![1].run.at = "trim"]
            /\ report' = [report EXCEPT !.evicted =
                   Append(@, players[1].buffer[Len(players[1].buffer)].n)]

\* line 536: popleft() of the trimming loop; on a deque the callback has
\* emptied meanwhile it raises IndexError, which ends _run (lines 538-539)
RunPopleft ==
    /\ BufferFrame
    /\ players[1].run.at = "popleft"
    /\ IF players[1].buffer = <<>>
       THEN /\ players' = [players EXCEPT ![1].run.at = "ended",
                                          ![1].task = FALSE]
            /\ UNCHANGED report
       ELSE /\ players' = [players EXCEPT ![1].buffer = Tail(@),
                                          ![1].run.at = "trim"]
            /\ report' = [report EXCEPT !.evicted =
                   Append(@, players[1].buffer[1].n)]

\* line 541: the device asks for `frames` samples
AudioCallback(frames) ==
    /\ BufferFrame
    /\ players[1].stream = "started"
    /\ players[1].cb.at = "idle"
    /\ players' = [players EXCEPT ![1].cb =
           [at |-> "test", left |-> frames, chunk |-> <<>>]]
    /\ report' = [report EXCEPT !.out =
           [frames |-> frames, data |-> <<>>, raised |-> "running"]]

\* lines 544-551: the loop test and `if self.buffer`; silence is appended
\* for an empty deque; after the loop the chunk is written to outdata, which
\* raises ValueError unless every row has the two channels of the stream
CallbackTest ==
    LET cb == players[1].cb
    IN  /\ BufferFrame
        /\ cb.at = "test"
        /\ IF cb.left = 0
           THEN /\ players' = [players EXCEPT ![1].cb =
                       [at |-> "idle", left |-> 0, chunk |-> <<>>]]
                /\ IF \A i \in 1..Len(cb.chunk) : cb.chunk[i].ch = 2
                   THEN report' = [report EXCEPT
                          !.out.data = cb.chunk,
                          !.out.raised = "none",
                          !.delivered = @ \o
                             [i \in 1..Len(SelectSeq(cb.chunk,
                                               LAMBDA x : x.n # 0)) |->
                                SelectSeq(cb.chunk, LAMBDA x : x.n # 0)[i].n]]
                   ELSE report' = [report EXCEPT !.out.raised = "ValueError"]
           ELSE IF players[1].buffer # <<>>
           THEN /\ players' = [players EXCEPT ![1].cb.at = "popleft"]
                /\ UNCHANGED report
           ELSE /\ players' = [players EXCEPT
                       ![1].cb.chunk = Append(@, Silence),
                       ![1].cb.left = @ - 1]
                /\ UNCHANGED report

\* line 546: popleft() of the callback; on a deque the trimming loop has
\* emptied meanwhile it raises IndexError out of the callback
CallbackPopleft ==
    /\ BufferFrame
    /\ players[1].cb.at = "popleft"
    /\ IF players[1].buffer = <<>>
       THEN /\ players' = [players EXCEPT ![1].cb =
                   [at |-> "idle", left |-> 0, chunk |-> <<>>]]
            /\ report' = [report EXCEPT !.out.raised = "IndexError"]
       ELSE /\ players' = [players EXCEPT
                   ![1].buffer = Tail(@),
                   ![1].cb.chunk = Append(@, players[1].buffer[1]),
                   ![1].cb.left = @ - 1,
                   ![1].cb.at = "test"]
            /\ UNCHANGED report

BufferNext ==
    \/ \E p \in Users : BufferStart(p)
    \/ \E k \in 1..MaxFrame, ch \in ChannelCounts : RunRecv(k, ch)
    \/ RunAppend
    \/ RunTrim
    \/ RunPopleft
    \/ \E frames \in 1..MaxRequest : AudioCallback(frames)
    \/ CallbackTest
    \/ CallbackPopleft

BufferSpec == Init /\ [][BufferNext]_vars

(***************************************************************************)
(* AudioPlayer._ensure_correct_channels (audio_player.py lines 152-183).   *)
(* An array is [dims, ch, rows]: a 2-D array of ch columns, or a 1-D array *)
(* (dims = 1), whose elements are kept as rows of one value.               *)
(***************************************************************************)
MaxRows == 2
MaxChannels == 3
SampleValues == {-2, 2}

Arrays ==
    UNION {{[dims |-> d, ch |-> c, rows |-> r] :
               r \in UNION {[1..n -> [1..c -> SampleValues]] : n \in 0..MaxRows}} :
           d \in {2}, c \in 1..MaxChannels}
    \cup {[dims |-> 1, ch |-> 1, rows |-> r] :
               r \in UNION {[1..n -> [1..1 -> SampleValues]] : n \in 0..MaxRows}}

\* lines 154-183
ensure_correct_channels(samples, target_channels) ==
    LET current_channels == IF samples.dims > 1 THEN samples.ch ELSE 1
        rows == samples.rows
        Out(f(_)) == [dims |-> 2, ch |-> target_channels,
                      rows |-> [i \in 1..Len(rows) |-> f(rows[i])]]
        Twice(r) == <<r[1], r[1]>>
        Mean(r) == <<(r[1] + r[2]) \div 2>>
        First(r) == SubSeq(r, 1, target_channels)
        Padded(r) == [j \in 1..target_channels |->
                         IF j <= current_channels THEN r[j] ELSE 0]
    IN  IF current_channels = target_channels THEN samples
        ELSE IF current_channels = 1 /\ target_channels = 2 THEN Out(Twice)
        ELSE IF current_channels = 2 /\ target_channels = 1 THEN Out(Mean)
        ELSE IF current_channels > target_channels THEN Out(First)
        \* line 174: a 1-D array of n # 1 elements does not broadcast into
        \* the n x 1 slice; the ValueError is caught at line 180 and the
        \* input returned
        ELSE IF samples.dims = 1 /\ Len(rows) # 1 THEN samples
        ELSE Out(Padded)

\* the function applied to an array and a target
EnsureCorrectChannels(samples, target_channels) ==
    /\ report' = [op |-> "channels", samples |-> samples,
                  target |-> target_channels,
                  out |-> ensure_correct_channels(samples, target_channels)]
    /\ UNCHANGED <<room, rtcVars, wsVars, lastOp, ret, players, recorders, rm>>

ChannelNext ==
    \E samples \in Arrays, target \in 1..MaxChannels :
        EnsureCorrectChannels(samples, target)

ChannelSpec == Init /\ [][ChannelNext]_vars

(***************************************************************************)
(* class LocalAudioPlayer (local_audio_player.py).  The methods are called *)
(* one after the other; each playback worker runs in a thread of its own   *)
(* and interleaves with them.  The player is players[1]: its fields, the   *)
(* threads it ever started (`threads`, a thread being at "open", "loop",   *)
(* "recv" or "dead") and the caller's position (`api`, which is at "join"  *)
(* while stop_audio waits for a thread).                                   *)
(***************************************************************************)
MaxThreads == 2
AlternativeFormats == <<"paInt16", "paInt32", "paInt24">>
Idle == [at |-> "idle", call |-> "none", peer |-> None]

\* the ways an initialisation can go: <<pyOk, streamOk, alt, display, pyOk2>>
Initialisations ==
    {<<TRUE, TRUE, 0, TRUE, TRUE>>, <<TRUE, FALSE, 1, TRUE, TRUE>>,
     <<TRUE, FALSE, 3, TRUE, TRUE>>, <<TRUE, FALSE, 0, TRUE, TRUE>>,
     <<FALSE, FALSE, 0, FALSE, FALSE>>, <<FALSE, FALSE, 0, TRUE, TRUE>>,
     <<FALSE, FALSE, 0, TRUE, FALSE>>}

\* _initialize_audio (lines 37-127): pyOk, PyAudio() returns; streamOk, the
\* test stream of the canonical format opens; alt, the first alternative
\* format whose test stream opens (0: none); display, a display is set;
\* pyOk2, the second PyAudio() returns.  The result is audio_available and
\* audio_format.
initialize_audio(format, pyOk, streamOk, alt, display, pyOk2) ==
    IF pyOk
    THEN IF streamOk THEN [available |-> TRUE, format |-> format]
         ELSE IF alt # 0
         THEN [available |-> TRUE, format |-> AlternativeFormats[alt]]
         ELSE [available |-> FALSE, format |-> format]
    ELSE [available |-> display /\ pyOk2, format |-> format]

\* what a call did: its name, its peer, what it returned, and for an
\* initialisation whether every format failed
Called(call, peer, returned, allFailed) ==
    [op |-> "local", call |-> call, peer |-> peer, returned |-> returned,
     allFailed |-> allFailed]

LocalFrame ==
    /\ Len(players) = 1
    /\ report.op = "local"
    /\ UNCHANGED <<room, rtcVars, wsVars, lastOp, ret, recorders, rm>>

\* __init__ (lines 20-35)
LocalAudioPlayerInit(pyOk, streamOk, alt, display, pyOk2) ==
    LET got == initialize_audio("paFloat32", pyOk, streamOk, alt, display, pyOk2)
    IN  /\ players = <<>>
        /\ players' = <<[audio_available |-> got.available,
                         audio_format |-> got.format,
                         audio_tracks |-> {}, volume_controls |-> {},
                         is_playing |-> EmptyDict, audio_threads |-> EmptyDict,
                         audio_streams |-> {}, threads |-> <<>>, api |-> Idle]>>
        /\ report' = Called("__init__", None, got.available,
                            pyOk /\ ~streamOk /\ alt = 0)
        /\ UNCHANGED <<room, rtcVars, wsVars, lastOp, ret, recorders, rm>>

\* retry_audio_initialization (lines 552-582)
RetryAudioInitialization(pyOk, streamOk, alt, display, pyOk2) ==
    LET got == initialize_audio(players[1].audio_format, pyOk, streamOk, alt,
                                display, pyOk2)
    IN  /\ LocalFrame
        /\ players[1].api = Idle
        /\ players' = [players EXCEPT ![1].audio_available = got.available,
                                      ![1].audio_format = got.format]
        /\ report' = Called("retry_audio_initialization", None, got.available,
                            pyOk /\ ~streamOk /\ alt = 0)

\* lines 178-185 of remove_audio_track
Removed_track(player, peer_id) ==
    [player EXCEPT !.audio_tracks = @ \ {peer_id},
                   !.volume_controls = @ \ {peer_id},
                   !.is_playing = Del(@, peer_id)]

\* lines 151-153 of add_audio_track
Added_track(player, peer_id) ==
    [player EXCEPT !.audio_tracks = @ \cup {peer_id},
                   !.volume_controls = @ \cup {peer_id},
                   !.is_playing = Put(@, peer_id, FALSE)]

Playing(player, peer_id) ==
    peer_id \in DOMAIN player.is_playing /\ player.is_playing[peer_id]

\* lines 253-259 of stop_audio: the flag is cleared and the thread of the
\* peer, when registered and alive, is joined
Stopping(player, call, peer_id) ==
    [player EXCEPT !.is_playing = Put(@, peer_id, FALSE),
                   !.api = [at |-> "join", call |-> call, peer |-> peer_id]]

\* add_audio_track without the test of lines 143-145
AddAudioTrack_unchecked(peer_id) ==
    /\ LocalFrame
    /\ players[1].api = Idle
    /\ IF Playing(players[1], peer_id)
       THEN /\ players' = [players EXCEPT ![1] =
                              Stopping(@, "add_audio_track", peer_id)]
            /\ report' = Called("add_audio_track", peer_id, "running", FALSE)
       ELSE /\ players' = [players EXCEPT ![1] =
                              Added_track(Removed_track(@, peer_id), peer_id)]
            /\ report' = Called("add_audio_track", peer_id, TRUE, FALSE)

\* add_audio_track (lines 129-160); a track that is there is removed first
\* (lines 147-149, 172-188), which stops its playback
AddAudioTrack(peer_id) ==
    /\ LocalFrame
    /\ players[1].api = Idle
    /\ IF ~players[1].audio_available
       THEN /\ UNCHANGED players
            /\ report' = Called("add_audio_track", peer_id, FALSE, FALSE)
       ELSE IF Playing(players[1], peer_id)
       THEN /\ players' = [players EXCEPT ![1] =
                              Stopping(@, "add_audio_track", peer_id)]
            /\ report' = Called("add_audio_track", peer_id, "running", FALSE)
       ELSE /\ players' = [players EXCEPT ![1] =
                              Added_track(Removed_track(@, peer_id), peer_id)]
            /\ report' = Called("add_audio_track", peer_id, TRUE, FALSE)

\* start_audio (lines 194-235); started: Thread.start() returned
StartAudio(peer_id, started) ==
    /\ LocalFrame
    /\ players[1].api = Idle
    /\ IF ~players[1].audio_available \/ peer_id \notin players[1].audio_tracks
       THEN /\ UNCHANGED players
            /\ report' = Called("start_audio", peer_id, FALSE, FALSE)
       ELSE IF Playing(players[1], peer_id)
       THEN /\ UNCHANGED players
            /\ report' = Called("start_audio", peer_id, TRUE, FALSE)
       ELSE /\ Len(players[1].threads) < MaxThreads
            /\ players' = [players EXCEPT
                  ![1].threads = Append(@, [peer |-> peer_id,
                                            at |-> IF started THEN "open"
                                                   ELSE "dead"]),
                  ![1].audio_threads = Put(@, peer_id, Len(players[1].threads) + 1),
                  ![1].is_playing = Put(@, peer_id, started)]
            /\ report' = Called("start_audio", peer_id, started, FALSE)

\* stop_audio (lines 237-253): up to the join
StopAudio(peer_id) ==
    /\ LocalFrame
    /\ players[1].api = Idle
    /\ IF ~Playing(players[1], peer_id)
       THEN /\ UNCHANGED players
            /\ report' = Called("stop_audio", peer_id, TRUE, FALSE)
       ELSE /\ players' = [players EXCEPT ![1] = Stopping(@, "stop_audio", peer_id)]
            /\ report' = Called("stop_audio", peer_id, "running", FALSE)

\* lines 256-263: the join returns, the thread having ended or the second
\* having passed (timeout), and the thread is forgotten; add_audio_track then
\* goes on with lines 178-185 and 151-156
JoinReturns(timeout) ==
    LET api == players[1].api
        p == api.peer
        registered == p \in DOMAIN players[1].audio_threads
        alive == registered
                 /\ players[1].threads[players[1].audio_threads[p]].at # "dead"
        joined == [players[1] EXCEPT !.audio_threads = Del(@, p), !.api = Idle]
    IN  /\ LocalFrame
        /\ api.at = "join"
        /\ timeout <=> alive
        /\ players' = [players EXCEPT ![1] =
              IF api.call = "add_audio_track"
              THEN Added_track(Removed_track(joined, p), p)
              ELSE joined]
        /\ report' = Called(api.call, p, TRUE, FALSE)

\* _audio_playback_worker, lines 332-345: the track and the volume are read
\* and the stream opened; a KeyError or a failing open reaches the handler
\* of lines 395-397
WorkerOpens(n, ok) ==
    LET p == players[1].threads[n].peer
        found == p \in players[1].audio_tracks
    IN  /\ LocalFrame
        /\ n \in 1..Len(players[1].threads)
        /\ players[1].threads[n].at = "open"
        /\ players' = [players EXCEPT
              ![1].threads[n].at = IF found /\ ok THEN "loop" ELSE "dead",
              ![1].audio_streams = IF found /\ ok THEN @ \cup {p} ELSE @,
              ![1].is_playing = IF found /\ ok THEN @ ELSE Put(@, p, FALSE)]
        /\ report' = Called("worker", p, "running", FALSE)

\* lines 355-393: at "loop" the flag of the peer is tested (line 355); at
\* "recv" a frame arrives and is played (frame), or recv or write raise or
\* the frame is None, which breaks the loop (lines 360-361, 380-382).  A
\* worker that leaves the loop closes and forgets the stream registered for
\* its peer (lines 387-391) and ends; nothing touches is_playing.
WorkerLoops(n, frame) ==
    LET p == players[1].threads[n].peer
        t == players[1].threads[n]
        goes == IF t.at = "loop" THEN Playing(players[1], p) ELSE frame
    IN  /\ LocalFrame
        /\ n \in 1..Len(players[1].threads)
        /\ t.at \in {"loop", "recv"}
        /\ t.at = "loop" => frame
        /\ players' = [players EXCEPT
              ![1].threads[n].at = IF ~goes THEN "dead"
                                   ELSE IF t.at = "loop" THEN "recv" ELSE "loop",
              ![1].audio_streams = IF goes THEN @ ELSE @ \ {p}]
        /\ report' = Called("worker", p, "running", FALSE)

LocalNext ==
    \/ \E i \in Initialisations :
          LocalAudioPlayerInit(i[1], i[2], i[3], i[4], i[5])
    \/ \E i \in Initialisations :
          RetryAudioInitialization(i[1], i[2], i[3], i[4], i[5])
    \/ \E p \in Users : AddAudioTrack(p)
    \/ \E p \in Users, started \in BOOLEAN : StartAudio(p, started)
    \/ \E p \in Users : StopAudio(p)
    \/ \E timeout \in BOOLEAN : JoinReturns(timeout)
    \/ \E n \in 1..MaxThreads, ok \in BOOLEAN : WorkerOpens(n, ok)
    \/ \E n \in 1..MaxThreads, frame \in BOOLEAN : WorkerLoops(n, frame)

LocalSpec == Init /\ [][LocalNext]_vars

(***************************************************************************)
(* websocket_endpoint with the user id the client presents in the path:    *)
(* any client may present any id, also one that is connected already.  The *)
(* id is a local of the endpoint task, kept in loc[s].                     *)
(***************************************************************************)
Pong == Reply("pong", None, [timestamp |-> None])

\* lines 92-103 (connect: 22-25): the socket is accepted and registered under
\* the presented id, over whatever was registered there, and the
\* confirmation is sent to the socket registered under the id, which is this
\* one; a failing send ends the endpoint, which unregisters the id (120-122)
EndpointConnect(s, u, gone) ==
    /\ pc[s] = "off"
    /\ event' = Event(s, NoMessage, NoLocals, <<>>,
                      IF gone THEN <<>>
                      ELSE << [to |-> s, msg |-> ConnectionEstablished(u)] >>,
                      <<>>, gone)
    /\ IF gone
       THEN /\ active_connections' = disconnect(Put(active_connections, u, s), u)
            /\ UNCHANGED <<pc, loc>>
       ELSE /\ active_connections' = Put(active_connections, u, s)
            /\ pc' = [pc EXCEPT ![s] = "recv"]
            /\ loc' = [loc EXCEPT ![s] = [user_id |-> u]]
    /\ UNCHANGED <<room, rtcVars, cur, lastOp, ret, mediaVars>>

\* lines 216-224 (send_personal_message: 32-34): the pong goes to the socket
\* registered under the id of the task, if any.  A send that raises is
\* answered by the handler of lines 237-245, whose send raises again, and the
\* endpoint unregisters the id (lines 120-122)
EndpointPing(s, gone) ==
    LET u == loc[s].user_id
    IN  /\ pc[s] = "recv"
        /\ UNCHANGED <<room, rtcVars, cur, lastOp, ret, mediaVars>>
        /\ IF SendReturns(u, gone)
           THEN /\ ~gone
                /\ event' = Event(s, Message("ping", None, Missing), NoLocals,
                                  <<>>, Delivered(u, Pong), <<>>, FALSE)
                /\ UNCHANGED <<active_connections, pc, loc>>
           ELSE /\ event' = Event(s, Message("ping", None, Missing), NoLocals,
                                  <<>>, <<>>, <<>>, TRUE)
                /\ active_connections' = disconnect(active_connections, u)
                /\ pc' = [pc EXCEPT ![s] = "off"]
                /\ loc' = [loc EXCEPT ![s] = NoLocals]

\* lines 117-119 (disconnect: 27-30): receive_text raises WebSocketDisconnect
\* and the endpoint unregisters the id of the task
EndpointDisconnect(s) ==
    /\ pc[s] = "recv"
    /\ active_connections' = disconnect(active_connections, loc[s].user_id)
    /\ pc' = [pc EXCEPT ![s] = "off"]
    /\ loc' = [loc EXCEPT ![s] = NoLocals]
    /\ event' = Event(s, NoMessage, NoLocals, <<>>, <<>>, <<>>, TRUE)
    /\ UNCHANGED <<room, rtcVars, cur, lastOp, ret, mediaVars>>

EndpointNext ==
    \/ \E s \in Sockets, u \in PeerIds, gone \in BOOLEAN :
          EndpointConnect(s, u, gone)
    \/ \E s \in Sockets, gone \in BOOLEAN : EndpointPing(s, gone)
    \/ \E s \in Sockets : EndpointDisconnect(s)

EndpointSpec == Init /\ [][EndpointNext]_vars

(***************************************************************************)
(* The life cycle of one AudioPlayerTrack (web_rtc.py, lines 461-509):      *)
(* start(), stop(), the warm-up task and the ingestion task.  players[1]    *)
(* holds the object: stream is the sounddevice stream ("none" before        *)
(* start()), _stopped the event, _task the position of _run, warmup the     *)
(* position of _warmup, stop the position of stop(), and filled the number  *)
(* of samples in the deque, for frames of one sample.                       *)
(***************************************************************************)
\* what a step did: the method that ran and, as history, the samples the
\* deque took in while the warm-up slept (counted up to buffer_size)
Played(call, prefilled) == [op |-> "track", call |-> call, prefilled |-> prefilled]

PlaybackFrame ==
    /\ Len(players) = 1
    /\ report.op = "track"
    /\ UNCHANGED <<room, rtcVars, wsVars, lastOp, ret, recorders, rm>>

\* lines 462-477
PlayerInit ==
    /\ players = <<>>
    /\ players' = <<[stream |-> "none", _stopped |-> FALSE, _task |-> "none",
                     warmup |-> "none", stop |-> "none", filled |-> 0]>>
    /\ report' = Played("__init__", 0)
    /\ UNCHANGED <<room, rtcVars, wsVars, lastOp, ret, recorders, rm>>

\* lines 479-494: the stream is created, not started, and the two tasks are
\* created
PlayerStart ==
    /\ PlaybackFrame
    /\ players[1].stream = "none"
    /\ players' = [players EXCEPT ![1].stream = "created",
                                  ![1]._task = "new",
                                  ![1].warmup = "sleep"]
    /\ report' = Played("start", report.prefilled)

\* lines 496-503, to the await of line 500: the event is set; a task that is
\* done (or none) does not suspend stop(), which then stops and closes the
\* stream, if there is one
PlayerStop ==
    /\ PlaybackFrame
    /\ players[1].stop = "none"
    /\ players' = [players EXCEPT
           ![1]._stopped = TRUE,
           ![1].stop = IF players[1]._task \in {"none", "done"}
                       THEN "done" ELSE "await",
           ![1].stream = IF players[1]._task \in {"none", "done"} /\ @ # "none"
                         THEN "closed" ELSE @]
    /\ report' = Played("stop", report.prefilled)

\* lines 500-503: the awaited task is done; the stream is stopped and closed
PlayerStopReturns ==
    /\ PlaybackFrame
    /\ players[1].stop = "await"
    /\ players[1]._task = "done"
    /\ players' = [players EXCEPT
           ![1].stop = "done",
           ![1].stream = IF @ # "none" THEN "closed" ELSE @]
    /\ report' = Played("stop", report.prefilled)

\* _warmup that starts the stream whatever the event says
PlayerWarmupElapsed_unchecked ==
    /\ PlaybackFrame
    /\ players[1].warmup = "sleep"
    /\ players' = [players EXCEPT
           ![1].warmup = "done",
           ![1].stream = IF @ # "none" THEN "started" ELSE @]
    /\ report' = Played("_warmup", report.prefilled)

\* lines 505-509: the sleep of 200 ms is over; the stream is started unless
\* the event is set
PlayerWarmupElapsed ==
    /\ PlaybackFrame
    /\ players[1].warmup = "sleep"
    /\ players' = [players EXCEPT
           ![1].warmup = "done",
           ![1].stream = IF ~players[1]._stopped /\ @ # "none"
                         THEN "started" ELSE @]
    /\ report' = Played("_warmup", report.prefilled)

\* lines 511-515: the ingestion task runs for the first time, to its first
\* await or, with the event set, to its end
PlayerRunStarts ==
    /\ PlaybackFrame
    /\ players[1]._task = "new"
    /\ players' = [players EXCEPT
           ![1]._task = IF players[1]._stopped THEN "done" ELSE "recv"]
    /\ report' = Played("_run", report.prefilled)

\* lines 515-539: track.recv() returns a frame, which is appended and the
\* deque trimmed, and the event is tested again (line 514); or it raises,
\* which ends the task (lines 538-539)
PlayerRunRecv(frame) ==
    /\ PlaybackFrame
    /\ players[1]._task = "recv"
    /\ players' = [players EXCEPT
           ![1].filled = IF ~frame THEN @
                         ELSE IF @ + 1 > buffer_size THEN buffer_size ELSE @ + 1,
           ![1]._task = IF frame /\ ~players[1]._stopped THEN "recv" ELSE "done"]
    /\ report' = Played(IF frame THEN "recv" ELSE "raise",
                         IF frame /\ players[1].warmup = "sleep"
                                  /\ report.prefilled < buffer_size
                         THEN report.prefilled + 1 ELSE report.prefilled)

\* lines 541-551: the device calls back for one sample while the stream runs
PlayerCallback ==
    /\ PlaybackFrame
    /\ players[1].stream = "started"
    /\ players' = [players EXCEPT ![1].filled = IF @ > 0 THEN @ - 1 ELSE 0]
    /\ report' = Played("_audio_callback", report.prefilled)

PlaybackNext ==
    \/ PlayerInit
    \/ PlayerStart
    \/ PlayerStop
    \/ PlayerStopReturns
    \/ PlayerWarmupElapsed
    \/ PlayerRunStarts
    \/ \E frame \in BOOLEAN : PlayerRunRecv(frame)
    \/ PlayerCallback

PlaybackSpec == Init /\ [][PlaybackNext]_vars

\* the event loop runs every task that is ready; whether the track ever
\* delivers another frame, and whether start() and stop() are called, is
\* not the player's to decide
PlaybackFairSpec ==
    /\ PlaybackSpec
    /\ WF_vars(PlayerStopReturns)
    /\ WF_vars(PlayerWarmupElapsed)
    /\ WF_vars(PlayerRunStarts)

(***************************************************************************)
(* The frame queue of one AudioPlayer (audio_player.py): the receiving     *)
(* task puts, the playback thread gets.  Frames are numbered in the order  *)
(* they are received.  players[1] holds audio_queue, the position of the   *)
(* receiving task (at) and the frame it has in hand (samples).             *)
(***************************************************************************)
maxsize == 100          \* queue.Queue(maxsize=100)
MaxReceived == 102      \* frames the track delivers in one run

Queued(received, enqueued) ==
    [op |-> "queue", received |-> received, enqueued |-> enqueued]

QueueFrame ==
    /\ Len(players) = 1
    /\ report.op = "queue"
    /\ UNCHANGED <<room, rtcVars, wsVars, lastOp, ret, recorders, rm>>

\* lines 13-17 and 30-41: the player with its empty queue, its playback
\* thread started and its receiving task at track.recv()
AudioPlayerStart ==
    /\ players = <<>>
    /\ players' = <<[audio_queue |-> <<>>, at |-> "recv", samples |-> 0]>>
    /\ report' = Queued(0, TRUE)
    /\ UNCHANGED <<room, rtcVars, wsVars, lastOp, ret, recorders, rm>>

\* lines 54-89: a frame is received and put; put_nowait raises queue.Full
\* when the queue holds maxsize frames
ReceiveFrame ==
    /\ QueueFrame
    /\ players[1].at = "recv"
    /\ report.received < MaxReceived
    /\ IF Len(players[1].audio_queue) < maxsize
       THEN /\ players' = [players EXCEPT
                   ![1].audio_queue = Append(@, report.received + 1)]
            /\ report' = Queued(report.received + 1, TRUE)
       ELSE /\ players' = [players EXCEPT ![1].at = "full",
                                         ![1].samples = report.received + 1]
            /\ report' = Queued(report.received + 1, FALSE)

\* lines 92, 94-95: get_nowait takes the oldest frame, or raises queue.Empty,
\* which is passed over, and the task goes on to the next frame
ReceiveGetNowait ==
    /\ QueueFrame
    /\ players[1].at = "full"
    /\ players' = [players EXCEPT
           ![1].audio_queue = IF @ = <<>> THEN @ ELSE Tail(@),
           ![1].at = IF players[1].audio_queue = <<>> THEN "recv" ELSE "put",
           ![1].samples = IF players[1].audio_queue = <<>> THEN 0 ELSE @]
    /\ report' = report

\* line 93: the frame in hand is put; the receiving task is the only one
\* that puts, so the place get_nowait made is still free
ReceivePutNowait ==
    /\ QueueFrame
    /\ players[1].at = "put"
    /\ players' = [players EXCEPT
           ![1].audio_queue = Append(@, players[1].samples),
           ![1].at = "recv", ![1].samples = 0]
    /\ report' = Queued(report.received, TRUE)

\* line 132: the playback thread takes the oldest frame
PlaybackGet ==
    /\ QueueFrame
    /\ players[1].audio_queue # <<>>
    /\ players' = [players EXCEPT ![1].audio_queue = Tail(@)]
    /\ report' = report

QueueNext ==
    \/ AudioPlayerStart
    \/ ReceiveFrame
    \/ ReceiveGetNowait
    \/ ReceivePutNowait
    \/ PlaybackGet

QueueSpec == Init /\ [][QueueNext]_vars

\* a message that breaks the protocol: not an object, or lacking a field
\* that its type requires
ProtocolError(msg) ==
    \/ msg = NonObjectFrame
    \/ msg.type = "offer" /\ (msg.roomId = None \/ msg.body = Missing)
    \/ msg.type = "answer" /\ msg.body = Missing
    \/ msg.type = "ice-candidate" /\ (msg.roomId = None \/ msg.body = Missing)
    \/ msg.type \in {"join-room", "leave-room"} /\ msg.roomId = None
    \/ msg.type \in {"unknown", "absent"}

\* C21: every message that breaks the protocol (valid JSON that is no
\* object, an unknown or absent type, a required field missing) is answered
\* by one error reply to its sender, and the sender's connection stays open
\* and registered (the client being there to take the reply).
C21_ProtocolErrorReplied ==
    (event.by # None /\ ProtocolError(event.msg) /\ ~event.gone) =>
        /\ Len(event.sends) = 1
        /\ event.sends[1].to = event.by
        /\ event.sends[1].msg.type = "error"
        /\ pc[event.by] = "recv"
        /\ user_id[event.by] \in DOMAIN active_connections


\* the task of a socket ended the handling of a join-room / leave-room
\* message that carried a roomId, the client having taken the reply
RoomHandled(type) ==
    /\ event.by # None
    /\ event.msg.type = type
    /\ event.msg.roomId # None
    /\ event.locals.log # <<>>

\* the sockets that got message m in the handling that just ended
Got(m) ==
    {event.locals.log[i].to :
        i \in {j \in 1..Len(event.locals.log) : event.locals.log[j].msg = m}}

\* C22: when the handling of a join-room message for room r from peer p ends,
\* p is in r, p got room-joined first, and user-joined-room was delivered to
\* every client connected during the whole broadcast (whose send did not
\* fail), whatever connects or disconnects meanwhile.
C22_JoinBroadcast ==
    RoomHandled("join-room") =>
        LET p == user_id[event.by]
            r == event.msg.roomId
        IN  /\ get_peer_room(room, p) = r
            /\ event.locals.log[1] = [to |-> event.by, msg |-> RoomReplyOf(event.msg, p)]
            /\ (event.locals.stable \ event.locals.failed)
                   \subseteq Got(RoomNoticeOf(event.msg, p))

C24_DisconnectOnlyUnregisters ==
    [][\A s \in Sockets :
          (pc[s] # "off" /\ pc'[s] = "off") =>
              LET p == user_id[s]
              IN  /\ active_connections' = disconnect(active_connections, p)
                  /\ p \notin DOMAIN active_connections'
                  /\ p \in DOMAIN connections => p \in DOMAIN connections'
                  /\ \A c \in 1..Len(conns) : conns'[c].closed = conns[c].closed
                  /\ p \in DOMAIN audio_tracks =>
                        /\ p \in DOMAIN audio_tracks'
                        /\ audio_tracks'[p] = audio_tracks[p]
                  /\ get_peer_room(room, p) # None =>
                        get_peer_room(room', p) # None
                  /\ UNCHANGED <<players, recorders>>
                  /\ event'.msg = NoMessage =>
                        UNCHANGED <<room, connections, conns, audio_tracks>>]_vars

\* the client of a peer that has a connection, a published track and a room
\* has gone
C24_Witness ==
    /\ event.by # None
    /\ event.msg = NoMessage
    /\ event.closed
    /\ user_id[event.by] \notin DOMAIN active_connections
    /\ user_id[event.by] \in DOMAIN connections
    /\ user_id[event.by] \in DOMAIN audio_tracks
    /\ get_peer_room(room, user_id[event.by]) # None


\* C25: the messages of a socket are handled one at a time: a message starts
\* being handled only when the task of the socket is in its receive loop
\* with no message and no locals left of the previous one, and the message
\* being handled stays the same until the step that ends its handling (its
\* reply included), whatever the other sockets do.
C25_OneAtATime ==
    [][\A s \in Sockets :
          /\ cur[s] # NoMessage =>
                \/ cur'[s] = cur[s]
                \/ /\ cur'[s] = NoMessage
                   /\ event'.by = s
                   /\ event'.msg = cur[s]
                   /\ pc'[s] \in {"recv", "off"}
          /\ (cur[s] = NoMessage /\ cur'[s] # NoMessage) =>
                /\ pc[s] = "recv"
                /\ loc[s] = NoLocals
          /\ (cur[s] = NoMessage /\ event' # event /\ event'.by = s
                 /\ event'.msg # NoMessage) =>
                /\ pc[s] = "recv"
                /\ loc[s] = NoLocals
          /\ pc[s] \in {"recv", "off"} <=> cur[s] = NoMessage]_vars

\* a socket got the reply that ends the handling of its message while the
\* other socket is in the middle of one
C25_Witness ==
    \E s, t \in Sockets :
        /\ s # t
        /\ event.by = s
        /\ event.msg # NoMessage
        /\ event.sends # <<>>
        /\ event.locals # NoLocals
        /\ cur[t] # NoMessage


\* C26: every connection ever created is the one registered for its peer or
\* has been closed, so that a peer has at most one open connection.
C26_OneOpenConnection ==
    \A c \in 1..Len(conns) :
        \/ conns[c].closed
        \/ /\ conns[c].peer \in DOMAIN connections
           /\ connections[conns[c].peer] = c


\* C27: the buffer of a player never holds more than buffer_size samples,
\* also while a frame is being appended and while the callback pops.
C27_BufferBounded ==
    (Len(players) = 1 /\ report.op = "buffer") =>
        Len(players[1].buffer) <= buffer_size

\* the numbers of a sequence increase strictly
Increasing(ns) ==
    \A i, j \in 1..Len(ns) : i < j => ns[i] < ns[j]

\* C28: under every interleaving of the ingestion task and the callback, the
\* samples handed to the device are in the order they were pushed in, none
\* twice and none that was not pushed, the buffer holds its samples in that
\* order, and a step that takes a sample out of the buffer (for the device
\* or to evict it) takes the oldest one and no other.
C28_FifoOrder ==
    [][(Len(players) = 1 /\ report.op = "buffer") =>
          /\ Increasing(report'.delivered)
          /\ \A i \in 1..Len(report'.delivered) :
                report'.delivered[i] \in 1..report'.pushed
          /\ Increasing([i \in 1..Len(players'[1].buffer) |->
                            players'[1].buffer[i].n])
          /\ Len(players'[1].buffer) < Len(players[1].buffer) =>
                players'[1].buffer = Tail(players[1].buffer)
          /\ report'.evicted # report.evicted =>
                report'.evicted = Append(report.evicted, players[1].buffer[1].n)
          /\ \A i \in 1..Len(report'.evicted) :
                \A j \in 1..Len(report'.delivered) :
                    report'.evicted[i] # report'.delivered[j]]_vars

\* samples were handed to the device, in two callbacks or with silence
\* between, after older ones had been evicted
C28_Witness ==
    /\ report.op = "buffer"
    /\ Len(report.delivered) >= 2
    /\ report.evicted # <<>>
    /\ report.delivered[1] > report.evicted[1]

\* C29: a callback that has ended raised nothing and wrote exactly the
\* number of samples asked for, each a buffered sample, these in the order
\* of arrival, or silence.
C29_CallbackTotal ==
    (report.op = "buffer" /\ report.out.raised # "running") =>
        /\ report.out.raised = "none"
        /\ Len(report.out.data) = report.out.frames
        /\ Increasing(SelectSeq([i \in 1..Len(report.out.data) |->
                                    report.out.data[i].n],
                                 LAMBDA n : n # 0))


\* C30: every sample in the playback buffer has the two channels of the
\* output stream.
C30_BufferedStereo ==
    (Len(players) = 1 /\ report.op = "buffer") =>
        \A i \in 1..Len(players[1].buffer) : players[1].buffer[i].ch = 2

\* the output of the channel adaptation of a 2-D array has the rows of the
\* input and the target number of channels, with the values of the four
\* conversions
AdaptedShape ==
    (report.op = "channels" /\ report.samples.dims = 2) =>
        LET in == report.samples.rows
            out == report.out.rows
            c == report.samples.ch
            t == report.target
        IN  /\ Len(out) = Len(in)
            /\ \A i \in 1..Len(out) :
                  /\ Len(out[i]) = t
                  /\ (c = 1 /\ t = 2) => out[i] = <<in[i][1], in[i][1]>>
                  /\ (c = 2 /\ t = 1) => 2 * out[i][1] = in[i][1] + in[i][2]
                  /\ (c > t /\ ~(c = 2 /\ t = 1)) =>
                        \A j \in 1..t : out[i][j] = in[i][j]
                  /\ c < t => \A j \in 1..t :
                        out[i][j] = IF j <= c THEN in[i][j]
                                    ELSE IF c = 1 /\ t = 2 THEN in[i][1] ELSE 0


\* C31: an initialisation in which the canonical format and every
\* alternative format failed leaves the audio subsystem unavailable, and
\* while it is unavailable every add_audio_track and start_audio returns
\* False and changes nothing of the player: no track, volume, playing flag
\* or thread is registered.
C31_UnavailableFailsFast ==
    [][/\ (report'.op = "local" /\ report'.allFailed) =>
             ~players'[1].audio_available
       /\ (Len(players) = 1 /\ report.op = "local" /\ report'.op = "local"
             /\ ~players[1].audio_available
             /\ report'.call \in {"add_audio_track", "start_audio"}) =>
             /\ report'.returned = FALSE
             /\ players' = players]_vars

\* start_audio and add_audio_track were refused by a player whose
\* initialisation had failed for every format
C31_Witness ==
    /\ Len(players) = 1
    /\ report.op = "local"
    /\ report.call \in {"add_audio_track", "start_audio"}
    /\ report.returned = FALSE
    /\ ~players[1].audio_available
    /\ players[1].audio_tracks = {}
    /\ players[1].is_playing = EmptyDict
    /\ players[1].threads = <<>>


\* the threads of the player that run the worker of peer p
LiveWorkers(p) ==
    {n \in 1..Len(players[1].threads) :
        players[1].threads[n].peer = p /\ players[1].threads[n].at # "dead"}

\* C38: a peer never has two live playback workers, and its playing flag is
\* set only while a worker of it runs.
C38_OneLiveWorker ==
    (Len(players) = 1 /\ report.op = "local") =>
        \A p \in Users :
            /\ Cardinality(LiveWorkers(p)) <= 1
            /\ Playing(players[1], p) => LiveWorkers(p) # {}

\* the cap of the list of collected candidates the claim speaks of, scaled
\* to lie below the candidates the engine emits for one offer
CandidateCap == 1

\* C32: the list of local candidates collected for an offer never grows
\* beyond the cap, neither while handle_offer waits for the end of gathering
\* nor in the answer it returns.
C32_CandidatesCapped ==
    /\ \A s \in Sockets :
           pc[s] = "wait_for" => Len(loc[s].ice_candidates) <= CandidateCap
    /\ (Handled("offer") /\ event.locals.stop # "none") =>
           Len(OfferResult(event.locals).ice_candidates) <= CandidateCap

\* C33: every accepted socket that has not disconnected is the socket
\* registered under the user id it presented.
C33_UniqueIds ==
    \A s \in Sockets :
        pc[s] # "off" =>
            /\ loc[s].user_id \in DOMAIN active_connections
            /\ active_connections[loc[s].user_id] = s

\* C34: join(r, p) of a peer p that is a member of r already leaves the
\* member sets and the peer-to-room map as they were, and joining twice
\* gives the registry that joining once gives.
C34_JoinIdempotent ==
    [][\A r \in RoomIds, p \in PeerIds :
          /\ (/\ get_peer_room(room, p) = r
              /\ room' = join(room, r, p)
              /\ lastOp' = [lastOp EXCEPT ![p] = [op |-> "join", room |-> r,
                                                   from |-> r]]) => room' = room
          /\ join(join(room, r, p), r, p) = join(room, r, p)]_vars

\* p1, the only peer that acted, joined r1 again as its only member
C34_Witness ==
    /\ lastOp["p1"] = [op |-> "join", room |-> "r1", from |-> "r1"]
    /\ \A q \in PeerIds \ {"p1"} : lastOp[q].op = "none"
    /\ room._peers = [r \in {"r1"} |-> {"p1"}]
    /\ room._peer_rooms = [q \in {"p1"} |-> "r1"]

\* C35: leave(p) of a peer with a room removes p from the room and from the
\* peer-to-room map, deletes the room if it got empty, and keeps every other
\* room and every other peer's entry; leave(p) of a peer without a room
\* changes nothing.
C35_LeaveFrame ==
    [][\A p \in PeerIds :
          LET r == get_peer_room(room, p)
          IN  (/\ room' = leave(room, p)
               /\ lastOp' = [lastOp EXCEPT ![p] = [op |-> "leave", room |-> None,
                                                    from |-> r]]) =>
                  IF r = None
                  THEN room' = room
                  ELSE /\ DOMAIN room'._peer_rooms = DOMAIN room._peer_rooms \ {p}
                       /\ \A q \in PeerIds \ {p} :
                              get_peer_room(room', q) = get_peer_room(room, q)
                       /\ IF get_peers_in_room(room, r) \ {p} = {}
                          THEN r \notin DOMAIN room'._peers
                          ELSE /\ r \in DOMAIN room'._peers
                               /\ room'._peers[r] = room._peers[r] \ {p}
                       /\ DOMAIN room'._peers \ {r} = DOMAIN room._peers \ {r}
                       /\ \A o \in DOMAIN room._peers \ {r} :
                              room'._peers[o] = room._peers[o]]_vars

\* p1 left r1, where p2 stays, while p3 is in r2
C35_Witness ==
    /\ lastOp["p1"] = [op |-> "leave", room |-> None, from |-> "r1"]
    /\ room._peers = [r \in {"r1", "r2"} |-> IF r = "r1" THEN {"p2"} ELSE {"p3"}]
    /\ room._peer_rooms = [q \in {"p2", "p3"} |-> IF q = "p2" THEN "r1" ELSE "r2"]

\* C36: the stream of an AudioPlayerTrack is started only by the step in
\* which the warm-up sleep that start() began is over, and only if the
\* player was not stopped by then; a closed stream stays closed; and a frame
\* that arrives while the warm-up sleeps is taken into the deque.
C36_WarmupGatesStream ==
    [][(Len(players) = 1 /\ Len(players') = 1) =>
          /\ (players'[1].stream = "started" /\ players[1].stream # "started") =>
                 /\ players[1].stream = "created"
                 /\ players[1].warmup = "sleep" /\ players'[1].warmup = "done"
                 /\ ~players[1]._stopped /\ players[1].stop = "none"
          /\ players[1].stream = "closed" => players'[1].stream = "closed"
          /\ (players[1].warmup = "sleep" /\ report'.call = "recv") =>
                 /\ players'[1].filled
                        = IF players[1].filled + 1 > buffer_size
                          THEN buffer_size ELSE players[1].filled + 1
                 /\ report'.prefilled >= 1
                 /\ players'[1].stream = "created"]_vars

\* the warm-up ended and started the stream over a deque filled meanwhile
C36_Witness ==
    /\ Len(players) = 1 /\ report.op = "track" /\ report.call = "_warmup"
    /\ players[1].stream = "started"
    /\ players[1].filled = buffer_size /\ report.prefilled = buffer_size

\* C37: once stop() is called it returns, with the ingestion task ended and
\* the stream, if one was created, stopped and closed.
C37_StopReleases ==
    (Len(players) = 1 /\ report.op = "track" /\ players[1].stop # "none")
        ~> (/\ Len(players) = 1 /\ players[1].stop = "done"
            /\ players[1]._task \in {"none", "done"}
            /\ players[1].stream \in {"none", "closed"})

\* C39: the queue never holds more than maxsize frames, and every frame the
\* receiving task is done with was put in the queue: the task never goes on
\* to the next frame having left the newest one out.
C39_DropOldest ==
    (Len(players) = 1 /\ report.op = "queue") =>
        /\ Len(players[1].audio_queue) <= maxsize
        /\ players[1].at = "recv" => report.enqueued

====
